---------------------------- MODULE Spec2Model ----------------------------
(***************************************************************************)
(* IRONLOG (src/app.js, second revision of the script, lines 1464-4373):   *)
(* the live-workout session object SessionV3, the handlers that drive it,  *)
(* the metrics engine (volume, personal records) and the workout           *)
(* finalizer, as a state machine.                                          *)
(*                                                                         *)
(* Conventions.                                                            *)
(*  - Time.  `now' is Date.now() in clock units; MsPerSec units make one   *)
(*    second, so Math.floor(x / 1000) is x \div MsPerSec.  Date.now() is   *)
(*    never 0, so the clock starts at 1.                                   *)
(*  - null / undefined timestamps are 0: JavaScript treats both as falsy   *)
(*    and as 0 in arithmetic, which is how the code uses them.             *)
(*  - currentExercise is a sequence of length 0 (null) or 1.               *)
(*  - An exercise name is a sequence of one-character strings, so that     *)
(*    toLowerCase() and trim() are computed and not assumed.               *)
(*  - setInterval handles: a field that holds a handle is TRUE; a ticker   *)
(*    whose handle was overwritten without clearInterval stays alive in    *)
(*    the browser and is counted in timers.orphanSet / timers.orphanRest.  *)
(*  - Element ids (uid) are opaque and unique; records are identified by   *)
(*    their position, and the id field is left out.                        *)
(*  - Display-only fields that no operation reads back (nextWeight,        *)
(*    active, workoutType, companionName, machineLoadEstimate) are left    *)
(*    out of the session record.                                           *)
(*  - dom.toast is the message shown by the handler that ran last, "" if   *)
(*    it showed none.                                                      *)
(*  - Ticks are not tied to the clock: a ticker may fire any number of     *)
(*    times between two readings of Date.now(), as a late timer does.      *)
(*  - bound holds the bounds and the input choices of the specification    *)
(*    being run: Spec is one session with all its clocks; SpecPR is the    *)
(*    personal-record functions called on their own.                       *)
(***************************************************************************)
EXTENDS Integers, Sequences, FiniteSets, TLC

VARIABLES
    now,        \* Date.now(), in clock units
    Session,    \* the SessionV3 singleton
    dom,        \* the part of the page the handlers read or gate on
    timers,     \* tickers alive in the browser whose handle was lost
    store,      \* DataStore: workouts, posts, prs, templates
    hist,       \* history: sessions started, accumulators when the rest began
    call,       \* the last call of a metrics function (SpecPR only)
    bound       \* the bounds and input choices of the specification being run

vars == <<now, Session, dom, timers, store, hist, call, bound>>

---------------------------------------------------------------------------
(* Bounds of the model *)

MaxTime == 3
MaxSessions == 1
MsPerSec == 2
MaxSets == 1
MaxExercises == 1
MaxWorkouts == 1
MaxOrphans == 1
MaxRestTicks == 2
MaxRuns == 4

(* Program constants *)

DefaultRest == 90
ReminderEvery == 30

SET_TYPES == {"warmup", "approach", "effective"}
EQUIPMENT_TYPES == {"machine", "barbell", "dumbbell"}

BARBELL_TYPES ==
    << [name |-> "Barra Olimpica", weight |-> 20],
       [name |-> "Barra EZ", weight |-> 10],
       [name |-> "Barra Hexagonal", weight |-> 25],
       [name |-> "Barra Fija", weight |-> 15],
       [name |-> "Personalizada", weight |-> 0] >>

---------------------------------------------------------------------------
(* Inputs the user can give *)

BenchPress == <<"B","e","n","c","h"," ","P","r","e","s","s">>
Squat == <<"S","q","u","a","t">>

SetChoices ==
    { [weight |-> 0, reps |-> 0, setType |-> "effective"],
      [weight |-> 0, reps |-> 0, setType |-> "warmup"],
      [weight |-> 80, reps |-> 5, setType |-> "effective"],
      [weight |-> 80, reps |-> 5, setType |-> "warmup"],
      [weight |-> 0, reps |-> 5, setType |-> "effective"] }
RestChoices == {2}
BarbellChoices == {5}
BarbellIndexChoices == {1, 5}

---------------------------------------------------------------------------
(* Strings: String.prototype.toLowerCase and String.prototype.trim *)

UpperCase == <<"A","B","C","D","E","F","G","H","I","J","K","L","M",
               "N","O","P","Q","R","S","T","U","V","W","X","Y","Z">>
LowerCase == <<"a","b","c","d","e","f","g","h","i","j","k","l","m",
               "n","o","p","q","r","s","t","u","v","w","x","y","z">>

toLowerCaseChar(c) ==
    IF \E i \in 1..Len(UpperCase) : UpperCase[i] = c
    THEN LowerCase[CHOOSE i \in 1..Len(UpperCase) : UpperCase[i] = c]
    ELSE c

toLowerCase(s) == [i \in 1..Len(s) |-> toLowerCaseChar(s[i])]

RECURSIVE trimStart(_)
trimStart(s) ==
    IF s # <<>> /\ Head(s) = " " THEN trimStart(Tail(s)) ELSE s

RECURSIVE trimEnd(_)
trimEnd(s) ==
    IF s # <<>> /\ s[Len(s)] = " " THEN trimEnd(SubSeq(s, 1, Len(s) - 1)) ELSE s

trim(s) == trimEnd(trimStart(s))

normalizeKey(name) == trim(toLowerCase(name))

---------------------------------------------------------------------------
(* Small helpers *)

MaxOf(S) == CHOOSE m \in S : \A x \in S : x <= m

---------------------------------------------------------------------------
(* ENGINES: volume and personal records *)

\* parseFloat(s.realWeight || s.weight) || 0 and parseInt(s.reps) || 0.
\* A recorded set holds numbers written with String(); String and parseFloat
\* are inverse on them, so the fields hold the numbers.
\* The bar left out of the weight that counts.
setWeightNominal(s) == s.weight

setWeight(s) == IF s.realWeight # 0 THEN s.realWeight ELSE s.weight
setReps(s) == s.reps

isEffectiveSet(s) == s.setType = "effective"

RECURSIVE calcVolumeV2(_)
calcVolumeV2(sets) ==
    IF sets = <<>> THEN 0
    ELSE setWeight(Head(sets)) * setReps(Head(sets)) + calcVolumeV2(Tail(sets))

RECURSIVE calcEffectiveVolume(_)
calcEffectiveVolume(sets) ==
    IF sets = <<>> THEN 0
    ELSE (IF Head(sets).setType # "effective" THEN 0
          ELSE setWeight(Head(sets)) * setReps(Head(sets)))
         + calcEffectiveVolume(Tail(sets))

\* prs[key] || 0
prOf(prs, key) == IF key \in DOMAIN prs THEN prs[key] ELSE 0

prPut(prs, key, w) ==
    [k \in DOMAIN prs \cup {key} |-> IF k = key THEN w ELSE prs[k]]

\* Faulty variant of detectPRV2: a weight equal to the record counts as a record.
detectPRV2OrEqual(exerciseName, weight, prs, setType) ==
    IF setType # "effective" THEN FALSE
    ELSE weight >= prOf(prs, normalizeKey(exerciseName))

detectPRV2(exerciseName, weight, prs, setType) ==
    IF setType # "effective" THEN FALSE
    ELSE weight > prOf(prs, normalizeKey(exerciseName))

\* Math.max(...effectiveSets.map(weight)); Math.max() of nothing is -Infinity,
\* which fails the test maxWeight > 0 exactly as the value -1 does here.
maxEffectiveWeight(ex) ==
    LET ws == {setWeight(ex.sets[i]) : i \in {j \in 1..Len(ex.sets) : isEffectiveSet(ex.sets[j])}}
    IN  IF ws = {} THEN -1 ELSE MaxOf(ws)

\* Faulty variant of updatePRsStep: the stored record is not compared.
updatePRsStepOverwrites(acc, ex) ==
    LET key == normalizeKey(ex.name)
        maxWeight == maxEffectiveWeight(ex)
    IN  IF maxWeight > 0
        THEN [prs |-> prPut(acc.prs, key, maxWeight),
              newPRs |-> Append(acc.newPRs, [exercise |-> ex.name, weight |-> maxWeight])]
        ELSE acc

\* One step of the forEach of updatePRsV2, on the pair (prs, newPRs).
updatePRsStep(acc, ex) ==
    LET key == normalizeKey(ex.name)
        maxWeight == maxEffectiveWeight(ex)
    IN  IF maxWeight > 0 /\ maxWeight > prOf(acc.prs, key)
        THEN [prs |-> prPut(acc.prs, key, maxWeight),
              newPRs |-> Append(acc.newPRs, [exercise |-> ex.name, weight |-> maxWeight])]
        ELSE acc

RECURSIVE updatePRsFold(_, _)
updatePRsFold(acc, exercises) ==
    IF exercises = <<>> THEN acc
    ELSE updatePRsFold(updatePRsStep(acc, Head(exercises)), Tail(exercises))

\* updatePRsV2(exercises) on the stored table: the table saved and the list returned.
updatePRsV2(exercises, prs) ==
    updatePRsFold([prs |-> prs, newPRs |-> <<>>], exercises)

---------------------------------------------------------------------------
(* SessionV3 *)

NoExercise == <<>>

SessionInit ==
    [ mode |-> "now",
      workoutName |-> "",
      restSeconds |-> DefaultRest,
      startTime |-> 0,
      workoutTimerInterval |-> FALSE,
      totalWorkoutSeconds |-> 0,
      isPaused |-> FALSE,
      pauseStartTime |-> 0,
      totalPausedTime |-> 0,
      companionMode |-> FALSE,
      isCompanionTurn |-> FALSE,
      companionWaitTime |-> 0,
      companionWaitStart |-> 0,
      completedExercises |-> <<>>,
      totalSeriesTime |-> 0,
      totalRestTime |-> 0,
      totalSkippedRestTime |-> 0,
      currentExercise |-> NoExercise,
      completedSets |-> <<>>,
      equipmentType |-> "none",
      barbellType |-> "none",
      barbellWeight |-> 0,
      setTimerInterval |-> FALSE,
      setStartTime |-> 0,
      setPausedTime |-> 0,
      setIsPaused |-> FALSE,
      setPauseStart |-> 0,
      restTimerInterval |-> FALSE,
      restRemaining |-> 0,
      restTotal |-> 0,
      restIsPaused |-> FALSE,
      restPausedAt |-> 0,
      lastReminder |-> 0 ]

\* Math.floor((Date.now() - this.startTime - this.totalPausedTime) / 1000)
workoutElapsed(s, t) == (t - s.startTime - s.totalPausedTime) \div MsPerSec

\* Math.floor((Date.now() - this.setStartTime - this.setPausedTime) / 1000)
setElapsed(s, t) == (t - s.setStartTime - s.setPausedTime) \div MsPerSec

startWorkoutTimer(s, t) ==
    IF s.mode = "plan" THEN s
    ELSE IF s.workoutTimerInterval THEN s
    ELSE [s EXCEPT !.startTime = IF s.startTime # 0 THEN s.startTime ELSE t,
                   !.workoutTimerInterval = TRUE]

\* Faulty variant of pauseWorkoutTimer: the pause is flagged, the instant it
\* began is not recorded.
pauseWorkoutTimerUnstamped(s, t) ==
    IF ~s.isPaused
    THEN [s EXCEPT !.isPaused = TRUE]
    ELSE s

pauseWorkoutTimer(s, t) ==
    IF ~s.isPaused
    THEN [s EXCEPT !.isPaused = TRUE, !.pauseStartTime = t]
    ELSE s

\* Faulty variant of resumeWorkoutTimer: the pause is lifted, the paused
\* interval is not credited.
resumeWorkoutTimerUncredited(s, t) ==
    IF s.isPaused /\ s.pauseStartTime # 0
    THEN [s EXCEPT !.isPaused = FALSE, !.pauseStartTime = 0]
    ELSE s

resumeWorkoutTimer(s, t) ==
    IF s.isPaused /\ s.pauseStartTime # 0
    THEN [s EXCEPT !.totalPausedTime = s.totalPausedTime + (t - s.pauseStartTime),
                   !.isPaused = FALSE,
                   !.pauseStartTime = 0]
    ELSE s

stopWorkoutTimer(s, t) ==
    LET a == [s EXCEPT !.workoutTimerInterval = FALSE]
    IN  IF a.startTime # 0
        THEN [a EXCEPT !.totalWorkoutSeconds = workoutElapsed(a, t)]
        ELSE a

\* The session fields after startSetTimer; the ticker it creates is the one
\* the handle names, and a handle it overwrites is counted by leaksSetTicker.
startSetTimer(s, t) ==
    IF s.mode = "plan" THEN s
    ELSE [s EXCEPT !.setStartTime = t,
                   !.setPausedTime = 0,
                   !.setIsPaused = FALSE,
                   !.setTimerInterval = TRUE]

leaksSetTicker(s) == s.mode # "plan" /\ s.setTimerInterval

pauseSetTimer(s, t) ==
    IF ~s.setIsPaused
    THEN [s EXCEPT !.setIsPaused = TRUE, !.setPauseStart = t]
    ELSE s

resumeSetTimer(s, t) ==
    IF s.setIsPaused /\ s.setPauseStart # 0
    THEN [s EXCEPT !.setPausedTime = s.setPausedTime + (t - s.setPauseStart),
                   !.setIsPaused = FALSE,
                   !.setPauseStart = 0]
    ELSE s

\* The duration stopSetTimer returns.
setDuration(s, t) == IF s.setStartTime # 0 THEN setElapsed(s, t) ELSE 0

stopSetTimer(s, t) ==
    [s EXCEPT !.setTimerInterval = FALSE,
              !.setStartTime = 0,
              !.setPausedTime = 0,
              !.setIsPaused = FALSE]

\* The session fields after startRestTimer(onDone).
startRestTimer(s, t) ==
    [s EXCEPT !.restRemaining = s.restSeconds,
              !.restTotal = s.restSeconds,
              !.restIsPaused = FALSE,
              !.restPausedAt = 0,
              !.restTimerInterval = TRUE]

leaksRestTicker(s) == s.restTimerInterval

pauseRestTimer(s, t) ==
    IF ~s.restIsPaused
    THEN [s EXCEPT !.restIsPaused = TRUE, !.restPausedAt = t]
    ELSE s

resumeRestTimer(s, t) ==
    IF s.restIsPaused
    THEN [s EXCEPT !.restIsPaused = FALSE, !.restPausedAt = 0]
    ELSE s

stopRestTimer(s, t) ==
    [s EXCEPT !.restTimerInterval = FALSE,
              !.restIsPaused = FALSE,
              !.restPausedAt = 0]

stopAllTimers(s, t) == stopRestTimer(stopSetTimer(stopWorkoutTimer(s, t), t), t)

reset(s, t) ==
    [stopAllTimers(s, t) EXCEPT
        !.mode = "now",
        !.workoutName = "",
        !.restSeconds = DefaultRest,
        !.startTime = 0,
        !.totalWorkoutSeconds = 0,
        !.isPaused = FALSE,
        !.pauseStartTime = 0,
        !.totalPausedTime = 0,
        !.companionMode = FALSE,
        !.isCompanionTurn = FALSE,
        !.companionWaitTime = 0,
        !.completedExercises = <<>>,
        !.totalSeriesTime = 0,
        !.totalRestTime = 0,
        !.totalSkippedRestTime = 0,
        !.currentExercise = NoExercise,
        !.completedSets = <<>>,
        !.equipmentType = "none",
        !.barbellType = "none",
        !.barbellWeight = 0,
        !.setPausedTime = 0,
        !.setIsPaused = FALSE,
        !.lastReminder = 0]

\* equipmentType || EQUIPMENT_TYPES.MACHINE
orMachine(e) == IF e = "none" THEN "machine" ELSE e

beginExercise(s, name, muscle, equipmentType, barbellType, barbellWeight) ==
    [s EXCEPT
        !.currentExercise = << [name |-> name, muscle |-> muscle, sets |-> <<>>,
                                equipmentType |-> orMachine(equipmentType),
                                barbellType |-> barbellType,
                                barbellWeight |-> barbellWeight] >>,
        !.completedSets = <<>>,
        !.equipmentType = orMachine(equipmentType),
        !.barbellType = barbellType,
        !.barbellWeight = barbellWeight]

\* Faulty variant of realWeightOf: the bar is never added.
realWeightOfNominal(s, weight) == weight

\* The bar counted on both sides of the addition.
realWeightOfDoubleBar(s, weight) ==
    IF s.equipmentType = "barbell" /\ s.barbellWeight > 0
    THEN weight + 2 * s.barbellWeight
    ELSE weight

\* Real weight of a set: the bar is added when the equipment is a barbell.
realWeightOf(s, weight) ==
    IF s.equipmentType = "barbell" /\ s.barbellWeight > 0
    THEN weight + s.barbellWeight
    ELSE weight

newSet(s, weight, reps, duration, setType) ==
    [weight |-> weight,
     realWeight |-> realWeightOf(s, weight),
     reps |-> reps,
     duration |-> duration,
     setType |-> setType,
     equipmentType |-> s.equipmentType]

\* Faulty variant of finishSet: the duration is recorded in the set but not
\* added to the series time.
finishSetUncounted(s, t, weight, reps, setType) ==
    LET duration == setDuration(s, t)
        a == stopSetTimer(s, t)
        c == startWorkoutTimer(a, t)
    IN  [c EXCEPT !.completedSets = Append(c.completedSets,
                                           newSet(c, weight, reps, duration, setType))]

finishSet(s, t, weight, reps, setType) ==
    LET duration == setDuration(s, t)
        a == stopSetTimer(s, t)
        b == [a EXCEPT !.totalSeriesTime = a.totalSeriesTime + duration]
        c == startWorkoutTimer(b, t)
    IN  [c EXCEPT !.completedSets = Append(c.completedSets,
                                           newSet(c, weight, reps, duration, setType))]

closeExercise(s) ==
    IF s.currentExercise = NoExercise THEN s
    ELSE [s EXCEPT
            !.completedExercises = Append(s.completedExercises,
                [s.currentExercise[1] EXCEPT
                    !.sets = s.completedSets,
                    !.equipmentType = orMachine(s.equipmentType),
                    !.barbellType = s.barbellType,
                    !.barbellWeight = s.barbellWeight]),
            !.currentExercise = NoExercise,
            !.completedSets = <<>>]

setCompanionTurn(s, t, isCompanion) ==
    LET a == [s EXCEPT !.isCompanionTurn = isCompanion]
    IN  IF isCompanion
        THEN [pauseWorkoutTimer(a, t) EXCEPT !.companionWaitStart = t]
        ELSE LET b == IF a.companionWaitStart # 0
                      THEN [a EXCEPT !.companionWaitTime =
                                        a.companionWaitTime + ((t - a.companionWaitStart) \div MsPerSec),
                                     !.companionWaitStart = 0]
                      ELSE a
             IN  resumeWorkoutTimer(b, t)

RECURSIVE totalVolumeOf(_)
totalVolumeOf(exercises) ==
    IF exercises = <<>> THEN 0
    ELSE calcVolumeV2(Head(exercises).sets) + totalVolumeOf(Tail(exercises))

RECURSIVE totalSetsOf(_)
totalSetsOf(exercises) ==
    IF exercises = <<>> THEN 0
    ELSE Len(Head(exercises).sets) + totalSetsOf(Tail(exercises))

\* The record getTotals returns, computed on the session it has stopped.
getTotals(a) ==
    [name |-> IF a.workoutName = "" THEN "Entrenamiento" ELSE a.workoutName,
     duration |-> a.totalWorkoutSeconds,
     exercises |-> a.completedExercises,
     totalVolume |-> totalVolumeOf(a.completedExercises),
     totalSets |-> totalSetsOf(a.completedExercises),
     exerciseCount |-> Len(a.completedExercises),
     seriesTime |-> a.totalSeriesTime,
     restTime |-> a.totalRestTime,
     skippedRestTime |-> a.totalSkippedRestTime,
     companionMode |-> a.companionMode,
     companionWaitTime |-> a.companionWaitTime]

---------------------------------------------------------------------------
(* The page and the store *)

\* One seeded feed post stands for the posts seedMockData writes on first run.
MockPosts ==
    << [sessionName |-> "Push Day", totalVolume |-> 14800, totalSets |-> 18,
        duration |-> 3840, exerciseCount |-> 5, exercises |-> <<>>,
        prs |-> <<[exercise |-> BenchPress, weight |-> 120]>>,
        likes |-> 12, likedBy |-> {}, comments |-> <<>>, createdAt |-> 0] >>

StoreInit ==
    [workouts |-> <<>>, posts |-> MockPosts, prs |-> <<>>, templates |-> <<>>]

\* The train view shown, which of the three exercise panels is shown
\* (showExState), whether the exercise panel and the companion button are
\* hidden, and the toast shown by the handler that ran last ("" when it
\* showed none).  The texts of the two clocks are not kept.
DomInit ==
    [view |-> "home",
     exState |-> "preview",
     panelHidden |-> TRUE,
     companionBtnHidden |-> TRUE,
     toast |-> ""]

TimersInit == [orphanSet |-> 0, orphanRest |-> 0]

\* hist.rest and hist.skipped are totalRestTime and totalSkippedRestTime as
\* they were when the rest that is running began (0 while none runs);
\* hist.sessions counts the sessions started since the page was loaded;
\* hist.carried is what the session already held when it was started.
carriedBy(s) ==
    [exercises |-> Len(s.completedExercises),
     seriesTime |-> s.totalSeriesTime,
     restTime |-> s.totalRestTime]

HistInit ==
    [rest |-> 0, skipped |-> 0, sessions |-> 0,
     carried |-> [exercises |-> 0, seriesTime |-> 0, restTime |-> 0]]

\* The state the handlers work on: session, page, browser timers, store.
World == [S |-> Session, D |-> [dom EXCEPT !.toast = ""], T |-> timers, P |-> store]

Min(a, b) == IF a < b THEN a ELSE b

showToast(w, msg) == [w EXCEPT !.D.toast = msg]

showExState(w, stateId) == [w EXCEPT !.D.exState = stateId]

showTrainView(w, viewId) == [w EXCEPT !.D.view = viewId]

\* Faulty variant of addWorkout: the record is put at the end of the history.
addWorkoutAtEnd(w, workout) == [w EXCEPT !.P.workouts = Append(w.P.workouts, workout)]

addWorkout(w, workout) == [w EXCEPT !.P.workouts = <<workout>> \o w.P.workouts]

addPost(w, post) == [w EXCEPT !.P.posts = <<post>> \o w.P.posts]

addTemplate(w, template) == [w EXCEPT !.P.templates = <<template>> \o w.P.templates]

deleteTemplate(w, idx) ==
    [w EXCEPT !.P.templates =
        SubSeq(w.P.templates, 1, idx - 1) \o SubSeq(w.P.templates, idx + 1, Len(w.P.templates))]

---------------------------------------------------------------------------
(* Handlers *)

selectWorkoutMode(w, t, mode) ==
    LET a == [w EXCEPT !.S = [reset(w.S, t) EXCEPT !.mode = mode]]
    IN  IF mode = "plan"
        THEN showToast(showTrainView(a, "config"), "plan-mode")
        ELSE showTrainView(a, "config")

\* A click on a .rest-btn of the configuration view.
selectRest(w, secs) == [w EXCEPT !.S.restSeconds = secs]

\* btn-config-continue: name is the trimmed input or 'Entrenamiento'.
configContinue(w, name, companion) ==
    [w EXCEPT !.S.workoutName = name,
              !.S.companionMode = companion,
              !.D.companionBtnHidden = ~companion,
              !.D.panelHidden = TRUE,
              !.D.view = "session"]

handleSaveTemplateFromConfig(w, name) ==
    LET template == [name |-> name, exercises |-> <<>>,
                     restSeconds |-> w.S.restSeconds, isPlanTemplate |-> TRUE]
        a == showToast(addTemplate(w, template), "template-created")
    IN  [a EXCEPT !.S.workoutName = name,
                  !.D.panelHidden = TRUE,
                  !.D.view = "session"]

\* renderExercisePreviewV2: shows the panel in its preview state and makes
\* the equipment default to machine.
renderExercisePreviewV2(w) ==
    [w EXCEPT !.D.panelHidden = FALSE,
              !.D.exState = "preview",
              !.S.equipmentType = orMachine(w.S.equipmentType)]

\* Faulty variant of startExercise: the open exercise is not closed first.
startExerciseNoClose(w, t, name, muscle) ==
    LET b == [w EXCEPT !.S.equipmentType = "machine",
                       !.S.barbellType = "none",
                       !.S.barbellWeight = 0]
        c == [b EXCEPT !.S = beginExercise(b.S, name, muscle, "none", "none", 0)]
    IN  renderExercisePreviewV2(c)

startExercise(w, t, name, muscle) ==
    LET a == IF w.S.currentExercise # NoExercise /\ Len(w.S.completedSets) > 0
             THEN [w EXCEPT !.S = closeExercise(stopRestTimer(stopSetTimer(w.S, t), t))]
             ELSE w
        b == [a EXCEPT !.S.equipmentType = "machine",
                       !.S.barbellType = "none",
                       !.S.barbellWeight = 0]
        c == [b EXCEPT !.S = beginExercise(b.S, name, muscle, "none", "none", 0)]
    IN  renderExercisePreviewV2(c)

selectBarbellType(w, index) ==
    LET barbell == BARBELL_TYPES[index]
    IN  IF barbell.weight > 0
        THEN [w EXCEPT !.S.barbellType = barbell.name, !.S.barbellWeight = barbell.weight]
        ELSE [w EXCEPT !.S.barbellType = barbell.name]

selectEquipmentType(w, type) ==
    LET a == [w EXCEPT !.S.equipmentType = type]
    IN  IF type = "barbell"
        THEN (IF a.S.barbellType = "none" THEN selectBarbellType(a, 1) ELSE a)
        ELSE IF type = "dumbbell"
        THEN [a EXCEPT !.S.barbellType = "none", !.S.barbellWeight = 0]
        ELSE a

\* input event of barbell-custom-weight: parseFloat(input.value) || 0
handleCustomBarbellWeight(w, value) == [w EXCEPT !.S.barbellWeight = value]

beginNextSetV2(w, t) ==
    LET a == showExState(w, "set-running")
    IN  [a EXCEPT !.S = startSetTimer(a.S, t),
                  !.T.orphanSet = IF leaksSetTicker(a.S)
                                  THEN Min(MaxOrphans, a.T.orphanSet + 1)
                                  ELSE a.T.orphanSet]

\* One click listener of btn-start-set.
startSetListener(w, t) ==
    beginNextSetV2([w EXCEPT !.S = startWorkoutTimer(w.S, t)], t)

\* A click on btn-start-set runs both listeners registered on it, the one of
\* init and the one of initTrainingImprovements.
clickStartSet(w, t) == startSetListener(startSetListener(w, t), t)

blueprintOf(ex) ==
    [name |-> ex.name,
     muscle |-> ex.muscle,
     equipmentType |-> orMachine(ex.equipmentType),
     barbellType |-> ex.barbellType,
     barbellWeight |-> ex.barbellWeight,
     estimatedSets |-> Len(ex.sets),
     estimatedWeight |-> IF Len(ex.sets) > 0 THEN ex.sets[1].weight ELSE 0]

blueprintsOf(exercises) == [i \in 1..Len(exercises) |-> blueprintOf(exercises[i])]

isCurrentPlanTemplate(w, tpl) == tpl.name = w.S.workoutName /\ tpl.isPlanTemplate

updatePlanTemplate(w) ==
    LET hits == {i \in 1..Len(w.P.templates) : isCurrentPlanTemplate(w, w.P.templates[i])}
    IN  IF hits = {} THEN w
        ELSE LET i == CHOOSE k \in hits : \A j \in hits : k <= j
             IN  [w EXCEPT !.P.templates[i].exercises = blueprintsOf(w.S.completedExercises)]

\* Faulty variant of handleFinishExercise: an exercise without sets is closed.
handleFinishExerciseUnchecked(w, t) ==
    LET closed == w.S.currentExercise # NoExercise
        a == [w EXCEPT !.S = closeExercise(stopRestTimer(stopSetTimer(w.S, t), t)),
                       !.D.panelHidden = TRUE,
                       !.D.exState = "preview"]
        b == IF a.S.mode = "plan" THEN updatePlanTemplate(a) ELSE a
    IN  IF closed THEN showToast(b, "exercise-done") ELSE b

handleFinishExercise(w, t) ==
    IF Len(w.S.completedSets) = 0
    THEN showToast(w, "warn-no-set")
    ELSE LET closed == w.S.currentExercise # NoExercise
             a == [w EXCEPT !.S = closeExercise(stopRestTimer(stopSetTimer(w.S, t), t)),
                            !.D.panelHidden = TRUE,
                            !.D.exState = "preview"]
             b == IF a.S.mode = "plan" THEN updatePlanTemplate(a) ELSE a
         IN  \* with no open exercise closeExercise returns undefined and
             \* reading ex.name throws before the toast
             IF closed THEN showToast(b, "exercise-done") ELSE b

\* Faulty variant of handleFinishSetV2: the empty set is not refused.
handleFinishSetV2Unchecked(w, t, weight, reps, setType, another) ==
    IF w.S.mode = "plan"
    THEN LET a == [w EXCEPT !.S.completedSets =
                        Append(w.S.completedSets, newSet(w.S, weight, reps, 0, setType))]
         IN  IF another THEN beginNextSetV2(a, t) ELSE handleFinishExercise(a, t)
    ELSE LET a == showExState([w EXCEPT !.S = finishSet(w.S, t, weight, reps, setType)], "rest")
         IN  [a EXCEPT !.S = startRestTimer(a.S, t),
                       !.T.orphanRest = IF leaksRestTicker(a.S)
                                        THEN Min(MaxOrphans, a.T.orphanRest + 1)
                                        ELSE a.T.orphanRest]

handleFinishSetV2(w, t, weight, reps, setType, another) ==
    IF weight = 0 /\ reps = 0
    THEN showToast(w, "warn-empty-set")
    ELSE IF w.S.mode = "plan"
    THEN LET a == [w EXCEPT !.S.completedSets =
                        Append(w.S.completedSets, newSet(w.S, weight, reps, 0, setType))]
         IN  IF another THEN beginNextSetV2(a, t) ELSE handleFinishExercise(a, t)
    ELSE LET a == showExState([w EXCEPT !.S = finishSet(w.S, t, weight, reps, setType)], "rest")
         IN  [a EXCEPT !.S = startRestTimer(a.S, t),
                       !.T.orphanRest = IF leaksRestTicker(a.S)
                                        THEN Min(MaxOrphans, a.T.orphanRest + 1)
                                        ELSE a.T.orphanRest]

\* The callback given to startRestTimer.
onRestDone(w, t) == beginNextSetV2(showToast(w, "rest-done"), t)

handleSkipRestV2(w, t) ==
    LET elapsed == w.S.restTotal - w.S.restRemaining
        skipped == w.S.restRemaining
        a == [w EXCEPT !.S.totalRestTime = w.S.totalRestTime + elapsed,
                       !.S.totalSkippedRestTime = w.S.totalSkippedRestTime + skipped]
    IN  beginNextSetV2([a EXCEPT !.S = stopRestTimer(a.S, t)], t)

toggleSetPause(w, t) ==
    [w EXCEPT !.S = IF w.S.setIsPaused THEN resumeSetTimer(w.S, t) ELSE pauseSetTimer(w.S, t)]

toggleRestPause(w, t) ==
    [w EXCEPT !.S = IF w.S.restIsPaused THEN resumeRestTimer(w.S, t) ELSE pauseRestTimer(w.S, t)]

toggleCompanionTurn(w, t) ==
    [w EXCEPT !.S = setCompanionTurn(w.S, t, ~w.S.isCompanionTurn)]

workoutOf(totals, newPRs, t) ==
    [name |-> totals.name, date |-> t, duration |-> totals.duration,
     exercises |-> totals.exercises, totalVolume |-> totals.totalVolume,
     totalSets |-> totals.totalSets, exerciseCount |-> totals.exerciseCount,
     seriesTime |-> totals.seriesTime, restTime |-> totals.restTime,
     skippedRestTime |-> totals.skippedRestTime, prs |-> newPRs]

postOf(totals, newPRs, t) ==
    [sessionName |-> totals.name, totalVolume |-> totals.totalVolume,
     totalSets |-> totals.totalSets, duration |-> totals.duration,
     exerciseCount |-> totals.exerciseCount, exercises |-> totals.exercises,
     prs |-> newPRs, likes |-> 0, likedBy |-> {}, comments |-> <<>>,
     createdAt |-> t]

\* Faulty variant of finishWorkout: a workout without exercises is not refused.
finishWorkoutUnchecked(w, t) ==
    LET a == IF w.S.currentExercise # NoExercise /\ Len(w.S.completedSets) > 0
             THEN [w EXCEPT !.S = closeExercise(w.S)]
             ELSE w
    IN  IF a.S.mode = "plan"
        THEN showTrainView(showToast(updatePlanTemplate(a), "template-saved"), "home")
        ELSE LET b == [a EXCEPT !.S = stopAllTimers(a.S, t)]
                 totals == getTotals(b.S)
                 r == updatePRsV2(totals.exercises, b.P.prs)
                 c == [b EXCEPT !.P.prs = r.prs]
                 d == addPost(addWorkout(c, workoutOf(totals, r.newPRs, t)),
                              postOf(totals, r.newPRs, t))
             IN  showTrainView(d, "summary")

\* Faulty variant of finishWorkout: a planned session is persisted like a
\* live one.
finishWorkoutPlanAsLive(w, t) ==
    LET a == IF w.S.currentExercise # NoExercise /\ Len(w.S.completedSets) > 0
             THEN [w EXCEPT !.S = closeExercise(w.S)]
             ELSE w
    IN  IF Len(a.S.completedExercises) = 0
        THEN showToast(a, "warn-no-exercise")
        ELSE LET b == [a EXCEPT !.S = stopAllTimers(a.S, t)]
                 totals == getTotals(b.S)
                 r == updatePRsV2(totals.exercises, b.P.prs)
                 c == [b EXCEPT !.P.prs = r.prs]
                 d == addPost(addWorkout(c, workoutOf(totals, r.newPRs, t)),
                              postOf(totals, r.newPRs, t))
             IN  showTrainView(d, "summary")

finishWorkout(w, t) ==
    LET a == IF w.S.currentExercise # NoExercise /\ Len(w.S.completedSets) > 0
             THEN [w EXCEPT !.S = closeExercise(w.S)]
             ELSE w
    IN  IF Len(a.S.completedExercises) = 0
        THEN showToast(a, "warn-no-exercise")
        ELSE IF a.S.mode = "plan"
        THEN showTrainView(showToast(updatePlanTemplate(a), "template-saved"), "home")
        ELSE LET b == [a EXCEPT !.S = stopAllTimers(a.S, t)]
                 totals == getTotals(b.S)
                 r == updatePRsV2(totals.exercises, b.P.prs)
                 c == [b EXCEPT !.P.prs = r.prs]
                 d == addPost(addWorkout(c, workoutOf(totals, r.newPRs, t)),
                              postOf(totals, r.newPRs, t))
             IN  showTrainView(d, "summary")

\* btn-back-session, the cancellation confirmed.
cancelWorkout(w, t) == showTrainView([w EXCEPT !.S = reset(w.S, t)], "home")

saveAsTemplate(w) ==
    IF Len(w.S.completedExercises) = 0 /\ w.S.currentExercise = NoExercise
    THEN showToast(w, "warn-no-template")
    ELSE LET exercises ==
                 IF w.S.currentExercise # NoExercise /\ Len(w.S.completedSets) > 0
                 THEN Append(w.S.completedExercises,
                             [w.S.currentExercise[1] EXCEPT !.sets = w.S.completedSets])
                 ELSE w.S.completedExercises
             template ==
                 [name |-> IF w.S.workoutName = "" THEN "Rutina sin nombre" ELSE w.S.workoutName,
                  exercises |-> blueprintsOf(exercises),
                  restSeconds |-> w.S.restSeconds,
                  isPlanTemplate |-> FALSE]
         IN  showToast(addTemplate(w, template), "template-saved")

startExerciseFromTemplate(w, bp) ==
    renderExercisePreviewV2(
        [w EXCEPT !.S = beginExercise(w.S, bp.name, bp.muscle,
                                      orMachine(bp.equipmentType), bp.barbellType,
                                      bp.barbellWeight)])

handleLoadTemplate(w, idx) ==
    LET template == w.P.templates[idx]
        a == [w EXCEPT !.S.workoutName = template.name,
                       !.S.restSeconds = IF template.restSeconds = 0 THEN DefaultRest
                                         ELSE template.restSeconds,
                       !.D.view = "session"]
    IN  IF Len(template.exercises) > 0
        THEN startExerciseFromTemplate(a, template.exercises[1])
        ELSE a

---------------------------------------------------------------------------
(* Ticker callbacks *)

\* The workout tick writes the elapsed time on the page and nothing else.
workoutTick(w, t) == w

\* Faulty variant of setTick: the tick counts the second into the series
\* time.
setTickCountsSeries(w, t) ==
    IF ~w.S.setIsPaused
    THEN [w EXCEPT !.S.totalSeriesTime = w.S.totalSeriesTime + 1]
    ELSE w

setTick(w, t) ==
    IF ~w.S.setIsPaused
    THEN LET secs == setElapsed(w.S, t)
         IN  IF secs > 0 /\ secs % ReminderEvery = 0 /\ secs # w.S.lastReminder
             THEN [w EXCEPT !.S.lastReminder = secs]
             ELSE w
    ELSE w

\* The test for the end of the countdown made one tick late.
restTickPastZero(w, t) ==
    IF ~w.S.restIsPaused
    THEN LET a == [w EXCEPT !.S.restRemaining = w.S.restRemaining - 1,
                            !.S.totalRestTime = w.S.totalRestTime + 1]
         IN  IF a.S.restRemaining < 0
             THEN onRestDone([a EXCEPT !.S = stopRestTimer(a.S, t)], t)
             ELSE a
    ELSE w

restTick(w, t) ==
    IF ~w.S.restIsPaused
    THEN LET a == [w EXCEPT !.S.restRemaining = w.S.restRemaining - 1,
                            !.S.totalRestTime = w.S.totalRestTime + 1]
         IN  IF a.S.restRemaining <= 0
             THEN onRestDone([a EXCEPT !.S = stopRestTimer(a.S, t)], t)
             ELSE a
    ELSE w

---------------------------------------------------------------------------
(* The state machine *)

NoCall == [fn |-> "none"]

InitWith(b) ==
    /\ now = 1
    /\ Session = SessionInit
    /\ dom = DomInit
    /\ timers = TimersInit
    /\ store \in {[StoreInit EXCEPT !.prs = prs] : prs \in b.storedPRs}
    /\ hist = HistInit
    /\ bound = b

\* The handler's result becomes the state, with the history h.
ApplyHist(w, h) ==
    /\ Session' = w.S
    /\ dom' = w.D
    /\ timers' = w.T
    /\ store' = w.P
    /\ hist' = h
    /\ UNCHANGED <<now, call, bound>>

\* The marks of a rest are forgotten once no rest ticker is running.
Apply(w) ==
    ApplyHist(w, IF w.S.restTimerInterval THEN hist
                 ELSE [hist EXCEPT !.rest = 0, !.skipped = 0])

\* A session is started.
ApplySession(w) ==
    ApplyHist(w, [rest |-> 0, skipped |-> 0, sessions |-> hist.sessions + 1,
                  carried |-> carriedBy(w.S)])

inSession == dom.view = "session"
panelShown(stateId) == inSession /\ ~dom.panelHidden /\ dom.exState = stateId

totalSetsInSession == Len(Session.completedSets) + totalSetsOf(Session.completedExercises)

Advance ==
    /\ now < bound.maxTime
    /\ now' = now + 1
    /\ dom' = [dom EXCEPT !.toast = ""]
    /\ UNCHANGED <<Session, timers, store, hist, call, bound>>

WorkoutTick ==
    /\ Session.workoutTimerInterval
    /\ Apply(workoutTick(World, now))

SetTick ==
    /\ Session.setTimerInterval \/ timers.orphanSet > 0
    /\ Apply(setTick(World, now))

RestTick ==
    /\ Session.restTimerInterval \/ timers.orphanRest > 0
    /\ Session.restTotal - Session.restRemaining < bound.maxRestTicks
    /\ Apply(restTick(World, now))

SelectWorkoutMode ==
    /\ dom.view = "home"
    /\ hist.sessions < bound.maxSessions
    /\ \E mode \in {"now", "plan"} : ApplySession(selectWorkoutMode(World, now, mode))

SelectRest ==
    /\ dom.view = "config"
    /\ \E secs \in bound.rests : Apply(selectRest(World, secs))

ConfigContinue ==
    /\ dom.view = "config"
    /\ \E name \in bound.workoutNames, companion \in BOOLEAN :
          Apply(configContinue(World, name, companion))

SaveTemplateFromConfig ==
    /\ dom.view = "config"
    /\ Len(store.templates) < bound.maxTemplates
    /\ \E name \in bound.workoutNames : Apply(handleSaveTemplateFromConfig(World, name))

BackConfig ==
    /\ dom.view = "config"
    /\ Apply(showTrainView(World, "home"))

\* The exercise dialog is opened by btn-config-continue or by btn-add-exercise,
\* which refuses while the open exercise has no set.
StartExercise ==
    /\ inSession
    /\ ~(Session.currentExercise # NoExercise /\ Len(Session.completedSets) = 0)
    /\ Len(Session.completedExercises)
         + (IF Session.currentExercise # NoExercise THEN 1 ELSE 0) < bound.maxExercises
    /\ \E e \in bound.exercises : Apply(startExercise(World, now, e.name, e.muscle))

SelectEquipmentType ==
    /\ panelShown("preview")
    /\ \E type \in bound.equipment : Apply(selectEquipmentType(World, type))

SelectBarbellType ==
    /\ panelShown("preview")
    /\ Session.equipmentType = "barbell"
    /\ \E index \in bound.barbells : Apply(selectBarbellType(World, index))

CustomBarbellWeight ==
    /\ panelShown("preview")
    /\ Session.equipmentType = "barbell"
    /\ Session.barbellType = "Personalizada"
    /\ \E value \in bound.barbellWeights : Apply(handleCustomBarbellWeight(World, value))

ClickStartSet ==
    /\ panelShown("preview")
    /\ Apply(clickStartSet(World, now))

FinishSet ==
    /\ panelShown("set-running")
    /\ \E in \in bound.sets, another \in BOOLEAN :
          /\ (in.weight = 0 /\ in.reps = 0) \/ totalSetsInSession < bound.maxSets
          /\ LET w == handleFinishSetV2(World, now, in.weight, in.reps, in.setType, another)
             IN  IF w.S.restTimerInterval /\ dom.exState # "rest"
                 THEN ApplyHist(w, [hist EXCEPT !.rest = w.S.totalRestTime,
                                                !.skipped = w.S.totalSkippedRestTime])
                 ELSE Apply(w)

ToggleSetPause ==
    /\ panelShown("set-running")
    /\ Apply(toggleSetPause(World, now))

SkipRest ==
    /\ panelShown("rest")
    /\ Apply(handleSkipRestV2(World, now))

ToggleRestPause ==
    /\ panelShown("rest")
    /\ Apply(toggleRestPause(World, now))

FinishExercise ==
    /\ inSession
    /\ ~dom.panelHidden
    /\ Apply(handleFinishExercise(World, now))

FinishWorkout ==
    /\ inSession
    /\ Len(store.workouts) < bound.maxWorkouts
    /\ Apply(finishWorkout(World, now))

CancelWorkout ==
    /\ inSession
    /\ Apply(cancelWorkout(World, now))

ToggleCompanionTurn ==
    /\ inSession
    /\ ~dom.companionBtnHidden
    /\ Apply(toggleCompanionTurn(World, now))

SaveAsTemplate ==
    /\ inSession
    /\ Len(store.templates) < bound.maxTemplates
    /\ Apply(saveAsTemplate(World))

LoadTemplate ==
    /\ dom.view = "home"
    /\ hist.sessions < bound.maxSessions
    /\ \E idx \in 1..Len(store.templates) : ApplySession(handleLoadTemplate(World, idx))

DeleteTemplate ==
    /\ dom.view = "home"
    /\ \E idx \in 1..Len(store.templates) : Apply(deleteTemplate(World, idx))

\* btn-to-feed of the summary view.
ToFeed ==
    /\ dom.view = "summary"
    /\ Apply(showTrainView(World, "home"))

---------------------------------------------------------------------------
(* Spec: one session with its clocks, from the mode choice to the summary *)

\* The PR table the browser has kept from earlier visits: none, or a
\* bench-press record of 90.
NoPRs == [k \in {} |-> 0]
benchPressKey == <<"b","e","n","c","h"," ","p","r","e","s","s">>
BenchAt90 == [k \in {benchPressKey} |-> 90]

FlowBound ==
    [maxTime |-> MaxTime,
     maxSessions |-> MaxSessions,
     maxSets |-> MaxSets,
     maxExercises |-> MaxExercises,
     maxWorkouts |-> MaxWorkouts,
     maxTemplates |-> 0,
     maxRestTicks |-> MaxRestTicks,
     storedPRs |-> {NoPRs, BenchAt90},
     rests |-> RestChoices,
     workoutNames |-> {"Push"},
     exercises |-> {[name |-> BenchPress, muscle |-> "Pecho"]},
     equipment |-> {"barbell"},
     barbells |-> BarbellIndexChoices,
     barbellWeights |-> BarbellChoices,
     sets |-> SetChoices]

Init ==
    /\ InitWith(FlowBound)
    /\ call = NoCall

Next ==
    \/ Advance
    \/ WorkoutTick
    \/ SetTick
    \/ RestTick
    \/ SelectWorkoutMode
    \/ SelectRest
    \/ ConfigContinue
    \/ BackConfig
    \/ StartExercise
    \/ SelectEquipmentType
    \/ SelectBarbellType
    \/ CustomBarbellWeight
    \/ ClickStartSet
    \/ FinishSet
    \/ ToggleSetPause
    \/ SkipRest
    \/ ToggleRestPause
    \/ FinishExercise
    \/ FinishWorkout
    \/ CancelWorkout
    \/ ToggleCompanionTurn
    \/ ToFeed

Spec == Init /\ [][Next]_vars

---------------------------------------------------------------------------
(* Properties of one session (Spec) *)

LaterTimes == now..bound.maxTime

\* C1: when a rest of a live session is ended by skip, what was added to
\* totalRestTime plus what was added to totalSkippedRestTime since the rest
\* began equals the configured rest duration, whatever the number of ticks.
C1_SkipConservesRest ==
    [][(SkipRest /\ Session.mode = "now" /\ Session.restTimerInterval)
         => (Session'.totalRestTime - hist.rest)
              + (Session'.totalSkippedRestTime - hist.skipped)
            = Session.restSeconds]_vars

SessionIdle(s) ==
    /\ s.completedExercises = <<>>
    /\ s.currentExercise = NoExercise
    /\ s.completedSets = <<>>
    /\ s.totalWorkoutSeconds = 0
    /\ s.totalSeriesTime = 0
    /\ s.totalRestTime = 0
    /\ s.totalSkippedRestTime = 0
    /\ s.companionWaitTime = 0
    /\ ~s.workoutTimerInterval
    /\ ~s.setTimerInterval
    /\ ~s.restTimerInterval

\* C2: a finishWorkout that succeeds (it leaves the session view) leaves the
\* session idle: no completed exercise, no open exercise, every accumulator
\* zero, no ticker active; hence finishWorkout invoked again would be refused.
C2_FinishResetsSession ==
    [][(FinishWorkout /\ dom'.view # "session")
         => /\ SessionIdle(Session')
            /\ finishWorkout([S |-> Session', D |-> dom', T |-> timers', P |-> store'],
                             now).P = store']_vars

workoutRunning(s) == s.workoutTimerInterval /\ s.startTime # 0 /\ ~s.isPaused
setRunning(s) == s.setTimerInterval /\ s.setStartTime # 0 /\ ~s.setIsPaused
restRunning(s) == s.restTimerInterval /\ ~s.restIsPaused

C4_StopIsIdempotent ==
    \A t1 \in LaterTimes : \A t2 \in t1..bound.maxTime :
        /\ stopWorkoutTimer(stopWorkoutTimer(Session, t1), t2) = stopWorkoutTimer(Session, t1)
        /\ stopSetTimer(stopSetTimer(Session, t1), t2) = stopSetTimer(Session, t1)
        /\ stopRestTimer(stopRestTimer(Session, t1), t2) = stopRestTimer(Session, t1)

\* C5: whenever a set can be finished, finishing it with weight 0 and reps 0,
\* for any set type and in either mode, changes no session field, no ticker
\* and nothing stored, leaves the panel as it is, and shows the warning.
C5_EmptySetRejected ==
    panelShown("set-running") =>
        \A setType \in SET_TYPES, another \in BOOLEAN :
            LET w == handleFinishSetV2(World, now, 0, 0, setType, another)
            IN  /\ w.S = Session
                /\ w.T = timers
                /\ w.P = store
                /\ w.D = [dom EXCEPT !.toast = "warn-empty-set"]

\* C5 happens: an empty set was just refused while the set clock runs.
C5_Witness ==
    /\ dom.toast = "warn-empty-set"
    /\ Session.setTimerInterval
    /\ Session.completedSets = <<>>

\* C6: closing an exercise that has no completed set, and finishing a workout
\* that has no completed exercise and no open exercise with sets, change no
\* session field, no ticker and nothing stored (history, posts, PR table,
\* templates), and show a warning.
C6_EmptyCloseAndFinishRejected ==
    inSession =>
        /\ (~dom.panelHidden /\ Len(Session.completedSets) = 0) =>
              LET w == handleFinishExercise(World, now)
              IN  /\ w.S = Session
                  /\ w.T = timers
                  /\ w.P = store
                  /\ w.D = [dom EXCEPT !.toast = "warn-no-set"]
        /\ ( /\ Len(Session.completedExercises) = 0
             /\ ~(Session.currentExercise # NoExercise /\ Len(Session.completedSets) > 0) ) =>
              LET w == finishWorkout(World, now)
              IN  /\ w.S = Session
                  /\ w.T = timers
                  /\ w.P = store
                  /\ w.D = [dom EXCEPT !.toast = "warn-no-exercise"]

\* C6 happens: finishing the workout was just refused while an exercise
\* without sets is open and its set clock runs.
C6_Witness ==
    /\ dom.toast = "warn-no-exercise"
    /\ Session.currentExercise # NoExercise
    /\ Session.setTimerInterval

\* The workout holds one exercise, Bench Press on the 20 kg bar, with one
\* effective set of nominal weight 80 and 5 repetitions.
benchPressWorkout(wk) ==
    /\ Len(wk.exercises) = 1
    /\ wk.exercises[1].name = BenchPress
    /\ wk.exercises[1].equipmentType = "barbell"
    /\ wk.exercises[1].barbellWeight = 20
    /\ Len(wk.exercises[1].sets) = 1
    /\ wk.exercises[1].sets[1].weight = 80
    /\ wk.exercises[1].sets[1].reps = 5
    /\ wk.exercises[1].sets[1].setType = "effective"

\* C10: when a live session of Bench Press on the 20 kg bar with one
\* effective set of 80 x 5 is finished and its workout is added to the
\* history, the recorded set has real weight 100,
\* the workout persisted has totalVolume 500, and the PR table entry of
\* "bench press" is 100 if it was lower before and is unchanged otherwise.
C10_BenchPressEndToEnd ==
    [][(Len(store'.workouts) = Len(store.workouts) + 1
          /\ Session.mode = "now"
          /\ benchPressWorkout(store'.workouts[1]))
         => /\ store'.workouts[1].exercises[1].sets[1].realWeight = 100
            /\ store'.workouts[1].totalVolume = 500
            /\ benchPressKey \in DOMAIN store'.prs
            /\ store'.prs[benchPressKey]
                 = (IF benchPressKey \in DOMAIN store.prs /\ store.prs[benchPressKey] >= 100
                    THEN store.prs[benchPressKey] ELSE 100)]_vars

\* C10 happens: that workout is persisted, the record of 90 kept from before
\* was raised to 100 and the workout lists the new record.
C10_Witness ==
    /\ dom.view = "summary"
    /\ Len(store.workouts) = 1
    /\ benchPressWorkout(store.workouts[1])
    /\ store.workouts[1].totalVolume = 500
    /\ store.workouts[1].prs = <<[exercise |-> BenchPress, weight |-> 100]>>
    /\ store.prs[benchPressKey] = 100

---------------------------------------------------------------------------
(* SpecPR: the personal-record functions called on their own.  Each run of   *)
(* UpdatePRs is the call finishWorkout makes, on the stored table.           *)

BenchPressPadded == <<" ","b","e","n","c","h"," ","p","r","e","s","s"," ">>

PRWeights == {75, 80, 85, 90}

prSet(weight, setType) ==
    [weight |-> weight, realWeight |-> weight, reps |-> 5, duration |-> 0,
     setType |-> setType, equipmentType |-> "machine"]

prExercise(name, sets) ==
    [name |-> name, muscle |-> "General", sets |-> sets,
     equipmentType |-> "machine", barbellType |-> "none", barbellWeight |-> 0]

bench(weight) == prExercise(BenchPress, <<prSet(weight, "effective")>>)

PRExerciseLists ==
    {<<bench(w)>> : w \in PRWeights}
    \cup { <<prExercise(BenchPressPadded, <<prSet(90, "warmup"), prSet(80, "effective")>>)>>,
           <<prExercise(Squat, <<prSet(85, "approach")>>)>>,
           <<bench(80), prExercise(BenchPressPadded, <<prSet(90, "effective")>>)>> }

PRBound ==
    [maxRuns |-> MaxRuns,
     storedPRs |-> {NoPRs},
     lists |-> PRExerciseLists,
     names |-> {BenchPressPadded, Squat},
     weights |-> {80}]

InitPR ==
    /\ InitWith(PRBound)
    /\ call = [fn |-> "none", fed |-> <<>>, emitted |-> <<>>]

\* updatePRsV2(exercises): the table is read from the store and saved back.
UpdatePRs ==
    /\ Len(call.fed) < bound.maxRuns
    /\ \E exercises \in bound.lists :
          LET r == updatePRsV2(exercises, store.prs)
          IN  /\ store' = [store EXCEPT !.prs = r.prs]
              /\ call' = [fn |-> "updatePRsV2",
                          exercises |-> exercises,
                          before |-> store.prs,
                          newPRs |-> r.newPRs,
                          fed |-> Append(call.fed, exercises),
                          emitted |-> Append(call.emitted, r.newPRs)]
    /\ UNCHANGED <<now, Session, dom, timers, hist, bound>>

\* detectPRV2(exerciseName, weight, prs, setType) on the stored table.
DetectPR ==
    /\ \E name \in bound.names, weight \in bound.weights, setType \in SET_TYPES :
          call' = [fn |-> "detectPRV2",
                   exerciseName |-> name,
                   weight |-> weight,
                   setType |-> setType,
                   result |-> detectPRV2(name, weight, store.prs, setType),
                   fed |-> call.fed,
                   emitted |-> call.emitted]
    /\ UNCHANGED <<now, Session, dom, timers, store, hist, bound>>

NextPR ==
    \/ UpdatePRs
    \/ DetectPR

SpecPR == InitPR /\ [][NextPR]_vars

---------------------------------------------------------------------------
(* Properties of the personal-record functions (SpecPR) *)

\* The runs of the scenario of C7 and the records they should emit.
BenchRuns == << <<bench(80)>>, <<bench(75)>>, <<bench(90)>>, <<bench(85)>> >>
BenchRecords ==
    << <<[exercise |-> BenchPress, weight |-> 80]>>, <<>>,
       <<[exercise |-> BenchPress, weight |-> 90]>>, <<>> >>

\* C7: a run of updatePRsV2 removes no key of the PR table and lowers no
\* value; and when the top effective weights 80, 75, 90, 85 of one exercise
\* are fed in four successive runs, PR records are emitted in the first and
\* the third run and in no other.
C7_PRsNeverDecrease ==
    /\ call.fn = "updatePRsV2" =>
          \A key \in DOMAIN call.before :
              key \in DOMAIN store.prs /\ store.prs[key] >= call.before[key]
    /\ \A n \in 1..Min(Len(call.fed), Len(BenchRuns)) :
          SubSeq(call.fed, 1, n) = SubSeq(BenchRuns, 1, n)
             => SubSeq(call.emitted, 1, n) = SubSeq(BenchRecords, 1, n)

\* C7 happens: the four runs 80, 75, 90, 85 were made and the record is 90.
C7_Witness ==
    /\ call.fn = "updatePRsV2"
    /\ call.fed = BenchRuns
    /\ store.prs[benchPressKey] = 90

\* C8: in one call of updatePRsV2, the records emitted carry pairwise
\* different normalized exercise names: at most one PR record per exercise.
C8_OneRecordPerExercise ==
    call.fn = "updatePRsV2" =>
        \A i, j \in 1..Len(call.newPRs) :
            normalizeKey(call.newPRs[i].exercise) = normalizeKey(call.newPRs[j].exercise)
               => i = j

\* C9: detectPRV2(name, weight, table, setType) is true exactly when the set
\* type is effective and the weight is strictly greater than the value the
\* table holds under the lower-cased, trimmed name, 0 when there is none.
C9_DetectPR ==
    call.fn = "detectPRV2" =>
        LET key == trim(toLowerCase(call.exerciseName))
            stored == IF key \in DOMAIN store.prs THEN store.prs[key] ELSE 0
        IN  call.result = (call.setType = "effective" /\ call.weight > stored)

\* C9 happens: a padded, lower-case name was asked about with an effective
\* weight equal to the record stored under its key, and the answer was no.
C9_Witness ==
    /\ call.fn = "detectPRV2"
    /\ call.exerciseName = BenchPressPadded
    /\ call.setType = "effective"
    /\ benchPressKey \in DOMAIN store.prs
    /\ store.prs[benchPressKey] = call.weight
    /\ ~call.result

-----------------------------------------------------------------------------
\* Further properties of one session (Spec)

\* The bar that a set recorded with this equipment carries.
barOf(equipmentType, barbellWeight) ==
    IF equipmentType = "barbell" /\ barbellWeight > 0 THEN barbellWeight ELSE 0

realWeightOK(set, barbellWeight) ==
    /\ set.realWeight = set.weight + barOf(set.equipmentType, barbellWeight)
    /\ set.realWeight >= set.weight

\* C11: every recorded set, in the exercise in progress, in the completed
\* exercises and in the persisted workouts, live or planned, has a real
\* weight equal to its nominal weight plus the bar when it was recorded with
\* a barbell of positive bar weight, and equal to its nominal weight
\* otherwise; the real weight is never below the nominal weight.
C11_RealWeightIncludesBar ==
    /\ \A i \in DOMAIN Session.completedSets :
          realWeightOK(Session.completedSets[i], Session.barbellWeight)
    /\ \A e \in DOMAIN Session.completedExercises :
          \A i \in DOMAIN Session.completedExercises[e].sets :
             realWeightOK(Session.completedExercises[e].sets[i],
                          Session.completedExercises[e].barbellWeight)
    /\ \A k \in DOMAIN store.workouts :
          \A e \in DOMAIN store.workouts[k].exercises :
             \A i \in DOMAIN store.workouts[k].exercises[e].sets :
                realWeightOK(store.workouts[k].exercises[e].sets[i],
                             store.workouts[k].exercises[e].barbellWeight)

\* A planned barbell set of 80 on a 20 bar is in a completed exercise.
C11_Witness ==
    /\ Session.mode = "plan"
    /\ \E e \in DOMAIN Session.completedExercises :
          \E i \in DOMAIN Session.completedExercises[e].sets :
             LET set == Session.completedExercises[e].sets[i] IN
                /\ set.equipmentType = "barbell"
                /\ set.weight = 80
                /\ set.realWeight = 100

\* C12: a step that records a set in live mode from the set-running panel
\* ends in the resting state: no set ticker is left alive, the duration of
\* the set has been added to totalSeriesTime, the workout timer has been
\* started, completedSets has grown by exactly that set at its end, and the
\* rest countdown runs with restRemaining = restTotal = the configured rest.
C12_FinishSetStartsRest ==
    [][(/\ Session.mode = "now"
        /\ dom.exState = "set-running"
        /\ Len(Session'.completedSets) = Len(Session.completedSets) + 1)
       => LET last == Session'.completedSets[Len(Session'.completedSets)]
          IN  /\ dom'.exState = "rest"
              /\ ~Session'.setTimerInterval
              /\ timers'.orphanSet = 0
              /\ Session'.totalSeriesTime = Session.totalSeriesTime + last.duration
              /\ Session'.workoutTimerInterval
              /\ Session'.startTime # 0
              /\ Session'.completedSets = Append(Session.completedSets, last)
              /\ restRunning(Session')
              /\ Session'.restRemaining = Session'.restSeconds
              /\ Session'.restTotal = Session'.restSeconds]_vars

-----------------------------------------------------------------------------
\* The rest countdown under fair ticking (SpecRest): the clock stands still
\* and the rest ticker, a setInterval that fires every second until it is
\* cleared, is weakly fair.  The countdown may run its full default length.

RestMaxSets == 2

RestBound ==
    [maxTime |-> 1,
     maxSessions |-> MaxSessions,
     maxSets |-> RestMaxSets,
     maxExercises |-> MaxExercises,
     maxWorkouts |-> MaxWorkouts,
     maxTemplates |-> 0,
     maxRestTicks |-> DefaultRest,
     storedPRs |-> {NoPRs},
     rests |-> RestChoices,
     workoutNames |-> {"Push"},
     exercises |-> {[name |-> BenchPress, muscle |-> "Pecho"]},
     equipment |-> {"barbell"},
     barbells |-> BarbellIndexChoices,
     barbellWeights |-> BarbellChoices,
     sets |-> {[weight |-> 80, reps |-> 5, setType |-> "effective"]}]

InitRest ==
    /\ InitWith(RestBound)
    /\ call = NoCall

NextRest ==
    \/ RestTick
    \/ SelectWorkoutMode
    \/ SelectRest
    \/ ConfigContinue
    \/ StartExercise
    \/ ClickStartSet
    \/ FinishSet
    \/ SkipRest
    \/ ToggleRestPause
    \/ FinishExercise
    \/ CancelWorkout

SpecRest == InitRest /\ [][NextRest]_vars /\ WF_vars(RestTick)

\* The countdown has just run out: ticker stopped, notification shown, the
\* next set running.
restDone ==
    /\ Session.restRemaining = 0
    /\ ~Session.restTimerInterval
    /\ dom.toast = "rest-done"
    /\ dom.exState = "set-running"
    /\ setRunning(Session)

\* The countdown was ended before zero by a skip or by leaving the exercise.
restCut == ~Session.restTimerInterval /\ Session.restRemaining > 0

\* C13: while the session rests with the countdown not paused, the countdown
\* started from the configured rest, every tick takes one off it, and the
\* tick that brings it to zero stops the rest ticker, shows the completion
\* notification and starts the next set (set-running); with a fair ticker a
\* running countdown leads to that completion unless it is paused, skipped
\* or cancelled first.
C13_RestAutoTransition ==
    /\ [][(/\ dom.exState = "rest"
           /\ restRunning(Session)
           /\ Session'.restRemaining # Session.restRemaining)
          => /\ Session.restTotal = Session.restSeconds
             /\ Session.restRemaining <= Session.restTotal
             /\ Session'.restRemaining = Session.restRemaining - 1
             /\ IF Session'.restRemaining = 0
                THEN restDone'
                ELSE /\ restRunning(Session')
                     /\ dom'.exState = "rest"]_vars
    /\ (dom.exState = "rest" /\ restRunning(Session))
          ~> (restDone \/ Session.restIsPaused \/ restCut)

\* A countdown of the default length has run out.
C13_Witness ==
    /\ restDone
    /\ Session.restTotal = DefaultRest
    /\ Session.totalRestTime = DefaultRest

-----------------------------------------------------------------------------
\* Companion turns (Spec)

\* What the workout clock shows (showed) at time t: nothing before it has
\* started.
workoutClock(s, t) ==
    IF s.startTime = 0 \/ s.startTime > t THEN 0 ELSE workoutElapsed(s, t)

\* C14: in a session, handing the turn to the companion at t1 pauses the
\* workout timer and adds nothing to companionWaitTime; taking it back at t2
\* resumes the timer, adds the whole seconds of t2 - t1 to companionWaitTime
\* and forgets t1, so the wait cannot be added again, and the workout clock
\* shows at t2 what it showed at t1; companionWaitTime never decreases while
\* the session lasts.
C14_CompanionTurn ==
    [][(inSession /\ dom'.view = "session")
       => /\ Session'.companionWaitTime >= Session.companionWaitTime
          /\ (~Session.isCompanionTurn /\ Session'.isCompanionTurn)
                => /\ Session'.isPaused
                   /\ Session'.pauseStartTime = now
                   /\ Session'.companionWaitStart = now
                   /\ Session'.companionWaitTime = Session.companionWaitTime
          /\ (Session.isCompanionTurn /\ ~Session'.isCompanionTurn)
                => /\ ~Session'.isPaused
                   /\ Session'.companionWaitStart = 0
                   /\ Session'.companionWaitTime = Session.companionWaitTime
                         + ((now - Session.companionWaitStart) \div MsPerSec)
                   /\ workoutClock(Session', now)
                         = workoutClock(Session, Session.companionWaitStart)]_vars

-----------------------------------------------------------------------------
\* The training log (SpecLog): one session, live or planned, with up to two
\* exercises, its plan template, the workout history and the feed.  The
\* pause buttons and the companion turn are left out.

LogMaxTime == 3
LogMaxSessions == 1
LogMaxSets == 2
LogMaxExercises == 2
LogMaxWorkouts == 1
LogMaxTemplates == 1
LogMaxRestTicks == 1

LogBound ==
    [maxTime |-> LogMaxTime,
     maxSessions |-> LogMaxSessions,
     maxSets |-> LogMaxSets,
     maxExercises |-> LogMaxExercises,
     maxWorkouts |-> LogMaxWorkouts,
     maxTemplates |-> LogMaxTemplates,
     maxRestTicks |-> LogMaxRestTicks,
     storedPRs |-> {NoPRs},
     rests |-> RestChoices,
     workoutNames |-> {"Push"},
     exercises |-> {[name |-> BenchPress, muscle |-> "Pecho"],
                    [name |-> Squat, muscle |-> "Piernas"]},
     equipment |-> {"barbell"},
     barbells |-> {1},
     barbellWeights |-> BarbellChoices,
     sets |-> {[weight |-> 80, reps |-> 5, setType |-> "effective"],
               [weight |-> 0, reps |-> 5, setType |-> "warmup"],
               [weight |-> 0, reps |-> 0, setType |-> "effective"]}]

InitLog ==
    /\ InitWith(LogBound)
    /\ call = NoCall

NextLog ==
    \/ Advance
    \/ RestTick
    \/ SelectWorkoutMode
    \/ ConfigContinue
    \/ SaveTemplateFromConfig
    \/ StartExercise
    \/ SelectEquipmentType
    \/ ClickStartSet
    \/ FinishSet
    \/ SkipRest
    \/ FinishExercise
    \/ FinishWorkout
    \/ ToFeed

SpecLog == InitLog /\ [][NextLog]_vars

\* C15: every exercise of the session's completed list and every exercise of
\* a persisted workout has at least one set, whether it was closed by hand,
\* closed when the next exercise started or closed by finishWorkout.
C15_NoEmptyExercise ==
    /\ \A e \in DOMAIN Session.completedExercises :
          Len(Session.completedExercises[e].sets) >= 1
    /\ \A k \in DOMAIN store.workouts :
          \A e \in DOMAIN store.workouts[k].exercises :
             Len(store.workouts[k].exercises[e].sets) >= 1

\* A persisted workout of two exercises, the second one closed by
\* finishWorkout (the panel still shows it).
C15_Witness ==
    /\ Len(store.workouts) = 1
    /\ Len(store.workouts[1].exercises) = 2
    /\ ~dom.panelHidden
    /\ dom.view = "summary"

-----------------------------------------------------------------------------
\* One page visit with two sessions (SpecVisit): each session has one
\* exercise of one set, is live or planned, and ends finished or cancelled;
\* the tickers left over from the first session are still there in the
\* second.

VisitMaxTime == 2
VisitMaxSessions == 2
VisitMaxWorkouts == 2

VisitBound ==
    [maxTime |-> VisitMaxTime,
     maxSessions |-> VisitMaxSessions,
     maxSets |-> MaxSets,
     maxExercises |-> MaxExercises,
     maxWorkouts |-> VisitMaxWorkouts,
     maxTemplates |-> 0,
     maxRestTicks |-> MaxRestTicks,
     storedPRs |-> {NoPRs},
     rests |-> RestChoices,
     workoutNames |-> {"Push"},
     exercises |-> {[name |-> BenchPress, muscle |-> "Pecho"],
                    [name |-> Squat, muscle |-> "Piernas"]},
     equipment |-> {"barbell"},
     barbells |-> {1},
     barbellWeights |-> BarbellChoices,
     sets |-> {[weight |-> 80, reps |-> 5, setType |-> "effective"],
               [weight |-> 0, reps |-> 5, setType |-> "warmup"]}]

InitVisit ==
    /\ InitWith(VisitBound)
    /\ call = NoCall

NextVisit ==
    \/ Advance
    \/ SetTick
    \/ RestTick
    \/ SelectWorkoutMode
    \/ ConfigContinue
    \/ StartExercise
    \/ ClickStartSet
    \/ FinishSet
    \/ SkipRest
    \/ FinishExercise
    \/ FinishWorkout
    \/ CancelWorkout
    \/ ToFeed

SpecVisit == InitVisit /\ [][NextVisit]_vars

\* No ticker of the page is alive: neither the three the session holds a
\* handle of nor one whose handle was overwritten.
noTickerAlive ==
    /\ ~Session.workoutTimerInterval
    /\ ~Session.setTimerInterval
    /\ ~Session.restTimerInterval
    /\ timers.orphanSet = 0
    /\ timers.orphanRest = 0

\* C16: whenever the session is in plan mode no workout, set or rest ticker
\* is alive, every recorded set has duration 0, totalSeriesTime,
\* totalRestTime, totalSkippedRestTime and the workout duration are 0, and
\* the panel never shows the resting state.
C16_PlanModeHasNoClock ==
    Session.mode = "plan"
       => /\ noTickerAlive
          /\ \A i \in DOMAIN Session.completedSets :
                Session.completedSets[i].duration = 0
          /\ \A e \in DOMAIN Session.completedExercises :
                \A i \in DOMAIN Session.completedExercises[e].sets :
                   Session.completedExercises[e].sets[i].duration = 0
          /\ Session.totalSeriesTime = 0
          /\ Session.totalRestTime = 0
          /\ Session.totalSkippedRestTime = 0
          /\ Session.totalWorkoutSeconds = 0
          /\ Session.startTime = 0
          /\ ~panelShown("rest")

\* C17: no step taken while the session is in plan mode, finishWorkout
\* included, changes the workout history, the feed posts or the PR table.
C17_PlanLeavesHistoryAlone ==
    [][Session.mode = "plan"
       => /\ store'.workouts = store.workouts
          /\ store'.posts = store.posts
          /\ store'.prs = store.prs]_vars

\* A planned session with a completed exercise has been finished.
C17_Witness ==
    /\ Session.mode = "plan"
    /\ dom.view = "home"
    /\ dom.toast = "template-saved"
    /\ Len(Session.completedExercises) > 0
    /\ store.workouts = <<>>
    /\ store.posts = MockPosts

\* The blueprint keeps the name, muscle, equipment, number of sets and
\* first-set weight of the exercise.
blueprintMatches(bp, ex) ==
    /\ bp.name = ex.name
    /\ bp.muscle = ex.muscle
    /\ bp.equipmentType = ex.equipmentType
    /\ bp.estimatedSets = Len(ex.sets)
    /\ Len(ex.sets) > 0 => bp.estimatedWeight = ex.sets[1].weight

templateHoldsSession(tpl, s) ==
    /\ tpl.name = s.workoutName
    /\ Len(tpl.exercises) = Len(s.completedExercises)
    /\ \A i \in DOMAIN tpl.exercises :
          blueprintMatches(tpl.exercises[i], s.completedExercises[i])

\* C18: after a finishWorkout that succeeds in plan mode (the session view
\* is left with the confirmation shown), the template store holds a
\* template named as the session whose blueprints match the session's
\* completed exercises one to one and in order, however the plan session
\* was entered.
C18_PlanSavedAsTemplate ==
    [][(/\ Session.mode = "plan"
        /\ inSession
        /\ dom'.view = "home"
        /\ dom'.toast = "template-saved")
       => \E i \in DOMAIN store'.templates :
             templateHoldsSession(store'.templates[i], Session')]_vars

\* All the sets of a list of exercises, in order.
RECURSIVE allSets(_)
allSets(exercises) ==
    IF exercises = <<>> THEN <<>>
    ELSE Head(exercises).sets \o allSets(Tail(exercises))

\* The sum of real weight times repetitions over a list of sets.
RECURSIVE sumRealVolume(_)
sumRealVolume(sets) ==
    IF sets = <<>> THEN 0
    ELSE Head(sets).realWeight * Head(sets).reps + sumRealVolume(Tail(sets))

\* C19: every persisted workout has totalVolume equal to the sum of real
\* weight times repetitions over all its sets, totalSets equal to the number
\* of its sets and exerciseCount equal to the number of its exercises; the
\* post published with it carries the same totalVolume, totalSets, duration,
\* exerciseCount and PR list, with no likes, no liker and no comment.
C19_TotalsAndPost ==
    \A k \in DOMAIN store.workouts :
       LET workout == store.workouts[k]
           post == store.posts[k]
       IN  /\ workout.totalVolume = sumRealVolume(allSets(workout.exercises))
           /\ workout.totalSets = Len(allSets(workout.exercises))
           /\ workout.exerciseCount = Len(workout.exercises)
           /\ post.totalVolume = workout.totalVolume
           /\ post.totalSets = workout.totalSets
           /\ post.duration = workout.duration
           /\ post.exerciseCount = workout.exerciseCount
           /\ post.prs = workout.prs
           /\ post.likes = 0
           /\ post.likedBy = {}
           /\ post.comments = <<>>

\* A persisted workout of two barbell exercises of one set each, 100 x 5
\* twice, that lasted one second.
C19_Witness ==
    /\ Len(store.workouts) = 1
    /\ store.workouts[1].exerciseCount = 2
    /\ store.workouts[1].totalSets = 2
    /\ store.workouts[1].totalVolume = 1000
    /\ store.posts[1].totalVolume = 1000
    /\ store.workouts[1].duration > 0

\* C20: a finishWorkout that succeeds in a live session puts exactly one new
\* record at the head of the workout history and one new post at the head
\* of the feed, the records and posts that were there keeping their content
\* and order behind them; no other step changes the history or the feed.
C20_HistoryIsAppendOnly ==
    [][/\ (Session.mode = "now" /\ inSession /\ dom'.view = "summary")
            => /\ Len(store'.workouts) = Len(store.workouts) + 1
               /\ Len(store'.posts) = Len(store.posts) + 1
       /\ (store'.workouts # store.workouts \/ store'.posts # store.posts)
            => /\ Len(store'.workouts) = Len(store.workouts) + 1
               /\ Tail(store'.workouts) = store.workouts
               /\ Len(store'.posts) = Len(store.posts) + 1
               /\ Tail(store'.posts) = store.posts]_vars

\* Two workouts are in the history, the later one first, the seeded post
\* last in the feed.
C20_Witness ==
    /\ Len(store.workouts) = 2
    /\ store.workouts[1].date > store.workouts[2].date
    /\ store.workouts[1].exercises # store.workouts[2].exercises
    /\ Len(store.posts) = 3
    /\ store.posts[1].createdAt > store.posts[2].createdAt
    /\ store.posts[3] = MockPosts[1]

-----------------------------------------------------------------------------
\* Totals of the session (SpecLog, SpecRest)

\* The sum of the durations of a list of sets.
RECURSIVE sumDurations(_)
sumDurations(sets) ==
    IF sets = <<>> THEN 0
    ELSE Head(sets).duration + sumDurations(Tail(sets))

C22_RestTimeCountsTicks ==
    [][(Session.mode = "now" /\ inSession /\ dom'.view # "home")
       => /\ Session'.totalRestTime # Session.totalRestTime
             => /\ restRunning(Session) \/ timers.orphanRest > 0
                /\ Session'.restRemaining = Session.restRemaining - 1
                /\ Session'.totalRestTime = Session.totalRestTime + 1
          /\ (Session'.restTotal = Session.restTotal
              /\ Session'.restRemaining = Session.restRemaining - 1)
             => Session'.totalRestTime = Session.totalRestTime + 1]_vars

-----------------------------------------------------------------------------
\* Reset and session start (Spec, SpecVisit)

\* What reset() promises of the session fields.
sessionCleared(s) ==
    /\ SessionIdle(s)
    /\ s.startTime = 0
    /\ s.totalPausedTime = 0
    /\ ~s.isPaused
    /\ ~s.companionMode
    /\ ~s.isCompanionTurn
    /\ s.equipmentType = "none"
    /\ s.barbellType = "none"
    /\ s.barbellWeight = 0

\* C23: the reset of a cancelled session (the session view is left for the
\* home view with no message), from a running set, a rest or a companion
\* turn as from anywhere else, leaves no ticker alive, every accumulator
\* zero, companion mode and turn off, the equipment cleared, no open
\* exercise and empty lists; and once the session is cleared no tick changes
\* a session field.
C23_ResetClearsSession ==
    [][/\ (inSession /\ dom'.view = "home" /\ dom'.toast = "")
            => /\ sessionCleared(Session')
               /\ noTickerAlive'
       /\ (dom.view = "home" /\ dom'.view = "home" /\ sessionCleared(Session))
            => Session' = Session]_vars

\* C24: choosing a mode (the configuration view opens) starts from a cleared
\* session whatever the previous session left behind: right after it the
\* accumulators are zero, the equipment is cleared, the completed list is
\* empty, no exercise is open, no ticker is alive, and the session mode is
\* the one chosen (the plan mode is the one that shows its notice).
C24_StartResetsSession ==
    [][(dom.view # "config" /\ dom'.view = "config")
       => /\ sessionCleared(Session')
          /\ noTickerAlive'
          /\ Session'.mode \in {"now", "plan"}
          /\ Session'.mode = "plan" <=> dom'.toast = "plan-mode"]_vars

-----------------------------------------------------------------------------
\* The three tickers (Spec)

accumulators(s) ==
    <<s.totalSeriesTime, s.totalRestTime, s.totalSkippedRestTime,
      s.totalPausedTime, s.companionWaitTime>>

workoutTickerAlive == Session.workoutTimerInterval
setTickerAlive == Session.setTimerInterval \/ timers.orphanSet > 0
restTickerAlive == Session.restTimerInterval \/ timers.orphanRest > 0

\* C25: a tick of the workout clock and a tick of the set clock change no
\* accumulator; a tick of the rest countdown changes restRemaining and
\* totalRestTime only, until the tick that brings the countdown to zero,
\* which changes no other accumulator either; and two ticks of different
\* tickers falling in the same second leave the same accumulators in either
\* order.
C25_TicksDoNotInterfere ==
    LET w == World
        r == restTick(w, now)
    IN  /\ workoutTickerAlive
              => accumulators(workoutTick(w, now).S) = accumulators(w.S)
        /\ setTickerAlive
              => accumulators(setTick(w, now).S) = accumulators(w.S)
        /\ restTickerAlive
              => /\ r.S.restRemaining > 0
                    => r.S = [w.S EXCEPT !.restRemaining = r.S.restRemaining,
                                         !.totalRestTime = r.S.totalRestTime]
                 /\ r.S.totalRestTime \in {w.S.totalRestTime, w.S.totalRestTime + 1}
                 /\ r.S.totalSeriesTime = w.S.totalSeriesTime
                 /\ r.S.totalSkippedRestTime = w.S.totalSkippedRestTime
                 /\ r.S.totalPausedTime = w.S.totalPausedTime
                 /\ r.S.companionWaitTime = w.S.companionWaitTime
        /\ (setTickerAlive /\ restTickerAlive)
              => accumulators(setTick(r, now).S)
                    = accumulators(restTick(setTick(w, now), now).S)
        /\ (workoutTickerAlive /\ restTickerAlive)
              => accumulators(workoutTick(r, now).S)
                    = accumulators(restTick(workoutTick(w, now), now).S)
        /\ (workoutTickerAlive /\ setTickerAlive)
              => accumulators(workoutTick(setTick(w, now), now).S)
                    = accumulators(setTick(workoutTick(w, now), now).S)

\* The three tickers are alive at once and the next rest tick is the one
\* that reaches zero.
C25_Witness ==
    /\ workoutTickerAlive
    /\ setTickerAlive
    /\ restRunning(Session)
    /\ Session.restRemaining = 1

-----------------------------------------------------------------------------
\* Exercises and their sets (SpecLog)

\* Every set recorded so far in the session, in the order of recording.
recordedSets(s) == allSets(s.completedExercises) \o s.completedSets

-----------------------------------------------------------------------------
\* The equipment of an exercise (SpecEquip): the equipment dialog with its
\* three equipment types, the bar variants and the custom bar weight, whose
\* field may be left empty or at 0 (parseFloat(value) || 0), and a template
\* saved from one session and loaded in the next.  The clock stands still.

EquipMaxSessions == 2
EquipMaxTemplates == 1

\* What the custom bar weight field can hold: nothing or 0, or 5.
CustomWeightChoices == {0, 5}

EquipBound ==
    [maxTime |-> 1,
     maxSessions |-> EquipMaxSessions,
     maxSets |-> MaxSets,
     maxExercises |-> MaxExercises,
     maxWorkouts |-> MaxWorkouts,
     maxTemplates |-> EquipMaxTemplates,
     maxRestTicks |-> MaxRestTicks,
     storedPRs |-> {NoPRs},
     rests |-> RestChoices,
     workoutNames |-> {"Push"},
     exercises |-> {[name |-> BenchPress, muscle |-> "Pecho"]},
     equipment |-> EQUIPMENT_TYPES,
     barbells |-> BarbellIndexChoices,
     barbellWeights |-> CustomWeightChoices,
     sets |-> {[weight |-> 80, reps |-> 5, setType |-> "effective"]}]

InitEquip ==
    /\ InitWith(EquipBound)
    /\ call = NoCall

NextEquip ==
    \/ SelectWorkoutMode
    \/ ConfigContinue
    \/ StartExercise
    \/ SelectEquipmentType
    \/ SelectBarbellType
    \/ CustomBarbellWeight
    \/ ClickStartSet
    \/ FinishSet
    \/ SkipRest
    \/ FinishExercise
    \/ FinishWorkout
    \/ CancelWorkout
    \/ SaveAsTemplate
    \/ LoadTemplate
    \/ ToFeed

SpecEquip == InitEquip /\ [][NextEquip]_vars

\* A set recorded with a barbell carries a bar: its real weight exceeds its
\* nominal weight.
carriesBar(set) == set.equipmentType = "barbell" => set.realWeight > set.weight

\* C27: whenever the equipment of the session is a barbell a bar variant is
\* set, the standard bar when none was chosen, with the positive weight of
\* that variant, and every set recorded with a barbell, in the open
\* exercise and in the completed ones, carries a bar of positive weight.
C27_BarbellHasBar ==
    /\ (inSession /\ Session.equipmentType = "barbell")
          => /\ Session.barbellType # "none"
             /\ \A i \in DOMAIN BARBELL_TYPES :
                   (Session.barbellType = BARBELL_TYPES[i].name
                    /\ BARBELL_TYPES[i].weight > 0)
                      => Session.barbellWeight = BARBELL_TYPES[i].weight
    /\ \A i \in DOMAIN Session.completedSets : carriesBar(Session.completedSets[i])
    /\ \A e \in DOMAIN Session.completedExercises :
          \A i \in DOMAIN Session.completedExercises[e].sets :
             carriesBar(Session.completedExercises[e].sets[i])

---------------------------------------------------------------------------
(* The values a field of a stored set can hold, and their conversions *)

\* A field read from a stored object is undefined when missing, a number or a
\* string; a string is the sequence of its characters.
Undefined == [t |-> "undefined", n |-> 0, s |-> <<>>]
NaN == [t |-> "NaN", n |-> 0, s |-> <<>>]
Num(n) == [t |-> "number", n |-> n, s |-> <<>>]
Str(s) == [t |-> "string", n |-> 0, s |-> s]

Digits == <<"0", "1", "2", "3", "4", "5", "6", "7", "8", "9">>

\* String(n) of an integer: its decimal digits, with a sign when negative.
RECURSIVE digitsOf(_)
digitsOf(n) ==
    IF n < 10 THEN <<Digits[n + 1]>>
    ELSE Append(digitsOf(n \div 10), Digits[(n % 10) + 1])

String(n) == IF n < 0 THEN <<"-">> \o digitsOf(0 - n) ELSE digitsOf(n)

\* The truth of a value in a condition: undefined, NaN, 0 and "" are false.
truthy(v) ==
    CASE v.t = "number" -> v.n # 0
      [] v.t = "string" -> v.s # <<>>
      [] OTHER -> FALSE

\* a || b
jsOr(a, b) == IF truthy(a) THEN a ELSE b

RECURSIVE leadingDigits(_)
leadingDigits(s) ==
    IF s # <<>> /\ (\E i \in DOMAIN Digits : Digits[i] = Head(s)) THEN <<Head(s)>> \o leadingDigits(Tail(s))
    ELSE <<>>

RECURSIVE digitsValue(_)
digitsValue(ds) ==
    IF ds = <<>> THEN 0
    ELSE digitsValue(SubSeq(ds, 1, Len(ds) - 1)) * 10
         + (CHOOSE i \in DOMAIN Digits : Digits[i] = ds[Len(ds)]) - 1

\* The number at the start of a string: leading blanks are skipped, then an
\* optional sign and the longest run of digits are read; NaN without a digit.
parseNumber(s) ==
    LET body == trimStart(s)
        signed == body # <<>> /\ Head(body) \in {"-", "+"}
        ds == leadingDigits(IF signed THEN Tail(body) ELSE body)
    IN  IF ds = <<>> THEN NaN
        ELSE IF signed /\ Head(body) = "-" THEN Num(0 - digitsValue(ds))
        ELSE Num(digitsValue(ds))

\* parseFloat(v): the argument is turned into a string and read; the string
\* of undefined holds no number.  The fields here hold whole numbers, so
\* that no fraction is read.
parseFloat(v) ==
    CASE v.t = "number" -> parseNumber(String(v.n))
      [] v.t = "string" -> parseNumber(v.s)
      [] OTHER -> NaN

\* parseInt(v) reads the same digits; it would stop at a decimal point.
parseInt(v) ==
    CASE v.t = "number" -> parseNumber(String(v.n))
      [] v.t = "string" -> parseNumber(v.s)
      [] OTHER -> NaN

\* x || 0 of a number or NaN
orZero(x) == IF truthy(x) THEN x.n ELSE 0

\* The sets both volume functions leave out: typed and not effective.
\* A missing setType is "none".
leftOutOfEffective(s) == s.setType # "none" /\ s.setType # "effective"

\* parseFloat(s.realWeight || s.weight) || 0 and parseInt(s.reps) || 0 on a
\* stored set, whose fields are values as above.
storedWeight(s) == orZero(parseFloat(jsOr(s.realWeight, s.weight)))
storedReps(s) == orZero(parseInt(s.reps))

\* calcVolumeV2 skipping the sets that are not effective.
RECURSIVE calcVolumeOfEffectiveOnly(_)
calcVolumeOfEffectiveOnly(sets) ==
    IF sets = <<>> THEN 0
    ELSE (IF leftOutOfEffective(Head(sets)) THEN 0
          ELSE storedWeight(Head(sets)) * storedReps(Head(sets)))
         + calcVolumeOfEffectiveOnly(Tail(sets))

\* calcVolumeV2(sets) on stored sets
RECURSIVE calcVolumeOf(_)
calcVolumeOf(sets) ==
    IF sets = <<>> THEN 0
    ELSE storedWeight(Head(sets)) * storedReps(Head(sets)) + calcVolumeOf(Tail(sets))

\* calcEffectiveVolume(sets) on stored sets
RECURSIVE calcEffectiveVolumeOf(_)
calcEffectiveVolumeOf(sets) ==
    IF sets = <<>> THEN 0
    ELSE (IF leftOutOfEffective(Head(sets)) THEN 0
          ELSE storedWeight(Head(sets)) * storedReps(Head(sets)))
         + calcEffectiveVolumeOf(Tail(sets))

\* calcLevel with the thresholds taken as exclusive.
calcLevelExclusive(workoutCount) ==
    IF workoutCount > 100 THEN [level |-> "ELITE", tier |-> 5]
    ELSE IF workoutCount > 50 THEN [level |-> "ADVANCED", tier |-> 4]
    ELSE IF workoutCount > 20 THEN [level |-> "INTERMEDIATE", tier |-> 3]
    ELSE IF workoutCount > 8 THEN [level |-> "NOVICE", tier |-> 2]
    ELSE [level |-> "BEGINNER", tier |-> 1]

\* calcLevel(workoutCount)
calcLevel(workoutCount) ==
    IF workoutCount >= 100 THEN [level |-> "ELITE", tier |-> 5]
    ELSE IF workoutCount >= 50 THEN [level |-> "ADVANCED", tier |-> 4]
    ELSE IF workoutCount >= 20 THEN [level |-> "INTERMEDIATE", tier |-> 3]
    ELSE IF workoutCount >= 8 THEN [level |-> "NOVICE", tier |-> 2]
    ELSE [level |-> "BEGINNER", tier |-> 1]

---------------------------------------------------------------------------
(* Dates: instants, the local calendar and the ISO string *)

\* An instant counts the parts of a day since the epoch, in universal time;
\* a day has SlotsPerDay of them.  The time zone tz is what the local clock
\* is ahead of universal time, in the same unit; no daylight saving change
\* falls in the days looked at.
SlotsPerDay == 2

\* Day 0 of the epoch is a Thursday; getDay() counts from Sunday = 0.
EpochWeekday == 4

\* The local calendar day of an instant.
localDay(t, tz) == (t + tz) \div SlotsPerDay

\* date.getDay()
getDay(t, tz) == (localDay(t, tz) + EpochWeekday) % 7

\* day.setDate(day.getDate() + n): the local calendar day moves by n, the
\* local time of day stays.
addDays(t, n) == t + n * SlotsPerDay

\* date.toISOString(): the date and the time of the instant in universal
\* time, "<date>T<time>Z".
toISOString(t) == [date |-> t \div SlotsPerDay, time |-> t % SlotsPerDay]

\* iso.split('T')[0]
datePart(iso) == iso.date

\* iso.startsWith(dayStr), dayStr being the date part of an ISO string
startsWithDate(iso, dayStr) == iso.date = dayStr

days == <<"L", "M", "X", "J", "V", "S", "D">>

\* The day string of entry i (from 0) of the week, as calcStreak computes it.
streakDayStr(today, tz, i) ==
    LET diff == (getDay(today, tz) + 6) % 7
    IN  datePart(toISOString(addDays(today, i - diff)))

\* calcStreak marking every day from the first trained one on.
calcStreakFromFirst(workouts, today, tz) ==
    [k \in 1..Len(days) |->
        [label |-> days[k],
         done |-> \E w \in DOMAIN workouts :
                     workouts[w].date.date <= streakDayStr(today, tz, k - 1)]]

\* calcStreak(workouts), today = new Date() being the instant today in the
\* time zone tz; entry k of the result is entry k - 1 of the array.
calcStreak(workouts, today, tz) ==
    [k \in 1..Len(days) |->
        [label |-> days[k],
         done |-> \E w \in DOMAIN workouts :
                     startsWithDate(workouts[w].date, streakDayStr(today, tz, k - 1))]]

---------------------------------------------------------------------------
(* The metric functions on their inputs (SpecMetrics) *)

MaxVolumeSets == 2
MaxWorkoutCount == 101
MaxStreakWorkouts == 2

\* What a field of a set was given as: nothing, an empty input, a text that
\* is no number, or the whole number n as a number or as its string.
Missing == [kind |-> "missing", n |-> 0]
EmptyInput == [kind |-> "empty", n |-> 0]
SomeText == [kind |-> "text", n |-> 0]
AsNumber(n) == [kind |-> "number", n |-> n]
AsString(n) == [kind |-> "string", n |-> n]

\* The value the field then holds.
fieldValue(f) ==
    CASE f.kind = "missing" -> Undefined
      [] f.kind = "empty" -> Str(<<>>)
      [] f.kind = "text" -> Str(<<"x">>)
      [] f.kind = "number" -> Num(f.n)
      [] f.kind = "string" -> Str(String(f.n))

storedSet(g) ==
    [weight |-> fieldValue(g.weight),
     realWeight |-> fieldValue(g.realWeight),
     reps |-> fieldValue(g.reps),
     setType |-> g.setType]

storedSets(gs) == [i \in DOMAIN gs |-> storedSet(gs[i])]

\* finishSet writes the real weight as the string of a number; sets of the
\* first revision have none.
GivenSets ==
    [weight : {Missing, EmptyInput, AsNumber(100), AsNumber(90), AsString(0 - 5)},
     realWeight : {Missing, AsString(0), AsString(120)},
     reps : {Missing, SomeText, AsNumber(5), AsNumber(8)},
     setType : {"none", "effective", "warmup"}]

SeqsUpTo(S, n) == UNION {[1..k -> S] : k \in 0..n}

\* The first day looked at is the first Monday of the epoch, 5 January 1970.
FirstMonday == (8 - EpochWeekday) % 7

WeekInstants == (FirstMonday * SlotsPerDay)..((FirstMonday + 7) * SlotsPerDay - 1)

TimeZones == {0 - 1, 0, 1}

\* The arguments of one call: the sets of a volume, the number of workouts
\* of a level, or the workouts, the instant and the time zone of a streak.
NoArgs ==
    [of |-> "none", given |-> <<>>, workoutCount |-> 0,
     today |-> 0, tz |-> 0, trainedAt |-> <<>>]

MetricsArgs ==
    {[NoArgs EXCEPT !.of = "sets", !.given = gs] :
        gs \in SeqsUpTo(GivenSets, MaxVolumeSets)}
    \cup {[NoArgs EXCEPT !.of = "count", !.workoutCount = n] :
              n \in 0..MaxWorkoutCount}
    \cup {[NoArgs EXCEPT !.of = "streak", !.today = x[1], !.tz = x[2],
                          !.trainedAt = x[3]] :
              x \in WeekInstants \X TimeZones
                       \X SeqsUpTo(WeekInstants, MaxStreakWorkouts)}

MetricsBound == [storedPRs |-> {NoPRs}]

\* The arguments are drawn at the start; each function is then applied to
\* them once.
InitMetrics ==
    /\ InitWith(MetricsBound)
    /\ call \in {[fn |-> "none", args |-> a] : a \in MetricsArgs}

\* calcVolumeV2(sets)
CalcVolume ==
    /\ call.fn = "none"
    /\ call.args.of = "sets"
    /\ call' = [fn |-> "calcVolumeV2",
                args |-> call.args,
                sets |-> storedSets(call.args.given),
                result |-> calcVolumeOf(storedSets(call.args.given))]
    /\ UNCHANGED <<now, Session, dom, timers, store, hist, bound>>

\* calcEffectiveVolume(sets)
CalcEffectiveVolume ==
    /\ call.fn = "none"
    /\ call.args.of = "sets"
    /\ call' = [fn |-> "calcEffectiveVolume",
                args |-> call.args,
                sets |-> storedSets(call.args.given),
                result |-> calcEffectiveVolumeOf(storedSets(call.args.given))]
    /\ UNCHANGED <<now, Session, dom, timers, store, hist, bound>>

\* calcLevel(workouts.length)
CalcLevel ==
    /\ call.fn = "none"
    /\ call.args.of = "count"
    /\ call' = [fn |-> "calcLevel",
                args |-> call.args,
                result |-> calcLevel(call.args.workoutCount)]
    /\ UNCHANGED <<now, Session, dom, timers, store, hist, bound>>

\* The workouts finished at the given instants, each dated with
\* new Date().toISOString().
workoutsAt(at) == [w \in DOMAIN at |-> [date |-> toISOString(at[w])]]

\* calcStreak(workouts) at the instant today in the time zone tz.
CalcStreak ==
    /\ call.fn = "none"
    /\ call.args.of = "streak"
    /\ call' = [fn |-> "calcStreak",
                args |-> call.args,
                workouts |-> workoutsAt(call.args.trainedAt),
                result |-> calcStreak(workoutsAt(call.args.trainedAt),
                                      call.args.today, call.args.tz)]
    /\ UNCHANGED <<now, Session, dom, timers, store, hist, bound>>

NextMetrics ==
    \/ CalcVolume
    \/ CalcEffectiveVolume
    \/ CalcLevel
    \/ CalcStreak

SpecMetrics == InitMetrics /\ [][NextMetrics]_vars

\* What the given field stands for: its number, or zero when it is missing
\* or no number.
meant(f) == IF f.kind \in {"number", "string"} THEN f.n ELSE 0

\* The weight of a given set that counts: the real weight if there is one,
\* else the nominal weight.
meantWeight(g) ==
    IF g.realWeight.kind # "missing" THEN meant(g.realWeight) ELSE meant(g.weight)

\* The sum of weight x reps over the given sets, or over the effective ones;
\* a set without a type is an effective one.
RECURSIVE sumOfProducts(_, _)
sumOfProducts(gs, effectiveOnly) ==
    IF gs = <<>> THEN 0
    ELSE (IF effectiveOnly /\ Head(gs).setType \in {"warmup", "approach"} THEN 0
          ELSE meantWeight(Head(gs)) * meant(Head(gs).reps))
         + sumOfProducts(Tail(gs), effectiveOnly)

nonNegativeInputs(gs) ==
    \A i \in DOMAIN gs : meant(gs[i].weight) >= 0 /\ meant(gs[i].realWeight) >= 0
                         /\ meant(gs[i].reps) >= 0

given100x5and90x8 ==
    <<[weight |-> AsNumber(100), realWeight |-> Missing, reps |-> AsNumber(5),
       setType |-> "none"],
      [weight |-> AsNumber(90), realWeight |-> Missing, reps |-> AsNumber(8),
       setType |-> "none"]>>

\* C28: the volume of a list of sets is the sum over the sets of (real
\* weight if present, else nominal weight) x reps, a weight or a number of
\* reps that is missing or no number counting as zero, so that 100 x 5 and
\* 90 x 8 give 1220; it is not negative when no input is; the effective
\* volume is the same sum over the effective sets only and, when no input
\* is negative, does not exceed the volume of the same sets.
C28_VolumeIsSumOfProducts ==
    /\ call.fn = "calcVolumeV2"
          => /\ call.result = sumOfProducts(call.args.given, FALSE)
             /\ nonNegativeInputs(call.args.given) => call.result >= 0
             /\ call.args.given = given100x5and90x8 => call.result = 1220
    /\ call.fn = "calcEffectiveVolume"
          => /\ call.result = sumOfProducts(call.args.given, TRUE)
             /\ nonNegativeInputs(call.args.given)
                   => call.result <= calcVolumeOf(call.sets)

\* The volume of a warm-up set with a bar and an effective set without a
\* number of reps has been computed.
C28_Witness ==
    /\ call.fn = "calcVolumeV2"
    /\ Len(call.args.given) = 2
    /\ call.args.given[1].setType = "warmup"
    /\ call.args.given[1].realWeight = AsString(120)
    /\ call.args.given[1].reps = AsNumber(5)
    /\ call.args.given[2].reps = SomeText
    /\ call.result = 600

\* C29: the level of a number of workouts has tier 1 for 0 to 7 workouts,
\* tier 2 for 8 to 19, tier 3 for 20 to 49, tier 4 for 50 to 99 and tier 5
\* from 100 on, and no smaller number of workouts has a higher tier.
C29_LevelIsStepFunction ==
    call.fn = "calcLevel"
       => LET n == call.args.workoutCount
              tier == call.result.tier
          IN  /\ n \in 0..7 => tier = 1
              /\ n \in 8..19 => tier = 2
              /\ n \in 20..49 => tier = 3
              /\ n \in 50..99 => tier = 4
              /\ n >= 100 => tier = 5
              /\ \A m \in 0..n : calcLevel(m).tier <= tier

\* The level of exactly 100 workouts has been computed.
C29_Witness ==
    /\ call.fn = "calcLevel"
    /\ call.args.workoutCount = 100
    /\ call.result = [level |-> "ELITE", tier |-> 5]

\* The local calendar day of the Monday of the week of today.
mondayOf(today, tz) == localDay(today, tz) - ((getDay(today, tz) + 6) % 7)

\* Some workout was finished on the local calendar day d.
trainedOn(at, tz, d) == \E w \in DOMAIN at : localDay(at[w], tz) = d

\* C30: the streak has 7 entries, entry i (from 0) being marked exactly
\* when some workout was finished on the day Monday + i of the week of
\* today; with workouts on the Monday and the Thursday of that week only,
\* exactly the entries 0 and 3 are marked, whatever day of the week today is.
C30_StreakMarksTrainedDays ==
    call.fn = "calcStreak"
       => LET at == call.args.trainedAt
              tz == call.args.tz
              monday == mondayOf(call.args.today, tz)
              marked == {i \in 0..6 : call.result[i + 1].done}
          IN  /\ Len(call.result) = 7
              /\ \A i \in 0..6 :
                    call.result[i + 1].done <=> trainedOn(at, tz, monday + i)
              /\ ({localDay(at[w], tz) : w \in DOMAIN at} = {monday, monday + 3})
                    => marked = {0, 3}

---------------------------------------------------------------------------
(* A session begun from a template after a finished workout (SpecTemplate) *)

TplMaxTime == 3
TplMaxSessions == 2
TplMaxSets == 2
TplMaxWorkouts == 2
TplMaxTemplates == 1
TplMaxRestTicks == 1

TplBound ==
    [maxTime |-> TplMaxTime,
     maxSessions |-> TplMaxSessions,
     maxSets |-> TplMaxSets,
     maxExercises |-> MaxExercises,
     maxWorkouts |-> TplMaxWorkouts,
     maxTemplates |-> TplMaxTemplates,
     maxRestTicks |-> TplMaxRestTicks,
     storedPRs |-> {NoPRs},
     rests |-> RestChoices,
     workoutNames |-> {"Push"},
     exercises |-> {[name |-> BenchPress, muscle |-> "Pecho"]},
     equipment |-> {"barbell"},
     barbells |-> BarbellIndexChoices,
     barbellWeights |-> BarbellChoices,
     sets |-> {[weight |-> 80, reps |-> 5, setType |-> "effective"]}]

InitTemplate ==
    /\ InitWith(TplBound)
    /\ call = NoCall

NextTemplate ==
    \/ Advance
    \/ RestTick
    \/ SelectWorkoutMode
    \/ ConfigContinue
    \/ StartExercise
    \/ ClickStartSet
    \/ FinishSet
    \/ SkipRest
    \/ FinishExercise
    \/ FinishWorkout
    \/ SaveAsTemplate
    \/ LoadTemplate
    \/ ToFeed

SpecTemplate == InitTemplate /\ [][NextTemplate]_vars

\* C31: the record a live workout persists holds only what its own session
\* produced: none of its exercises, series time or rest time was already in
\* the session when it was started, and its duration fits between the
\* record persisted before it and its own date; so for a session started
\* from a template after a finished workout.
C31_RecordIsOfItsSession ==
    [][Len(store'.workouts) = Len(store.workouts) + 1
         => LET record == store'.workouts[1]
            IN  /\ hist.carried.exercises = 0
                /\ hist.carried.seriesTime = 0
                /\ hist.carried.restTime = 0
                /\ Len(store.workouts) > 0
                      => record.duration * MsPerSec
                            <= record.date - store.workouts[1].date]_vars

---------------------------------------------------------------------------
(* The workout clock and the companion turn (Spec) *)

\* C32: in a live session whose workout clock has been started the elapsed
\* workout time now - startTime - totalPausedTime is not negative, and
\* neither is the duration the session has computed nor the duration of any
\* persisted record; so too when the companion turn was toggled on and off
\* before the first set started the clock.
C32_ClockNeverNegative ==
    /\ (inSession /\ Session.mode = "now" /\ Session.startTime # 0)
          => now - Session.startTime - Session.totalPausedTime >= 0
    /\ Session.totalWorkoutSeconds >= 0
    /\ \A i \in DOMAIN store.workouts : store.workouts[i].duration >= 0

---------------------------------------------------------------------------
(* The duration of a set and its pauses (Spec) *)

\* The time the running set has been active: from its start to now, or to
\* the beginning of the pause it is in, less the pauses already ended.
setActiveTime(s, t) ==
    (IF s.setIsPaused THEN s.setPauseStart ELSE t) - s.setStartTime - s.setPausedTime

\* C33: the duration recorded for a set of a live session is the time the
\* set was active, in whole seconds: no time during which the set timer was
\* paused is in it, also when the set is finished while the timer is paused.
C33_DurationExcludesPauses ==
    [][(Session.mode = "now"
        /\ Session.setStartTime # 0
        /\ Len(Session'.completedSets) = Len(Session.completedSets) + 1)
         => Session'.completedSets[Len(Session'.completedSets)].duration
               = setActiveTime(Session, now) \div MsPerSec]_vars

\* C34: when a live workout is finished during the companion's turn, the
\* wait having begun after the workout clock was started, the recorded
\* duration is the workout time up to the beginning of that wait, and the
\* wait in progress is part of the companion wait time of the totals.
C34_FinishDuringCompanionTurn ==
    [][(Len(store'.workouts) = Len(store.workouts) + 1
        /\ Session.isCompanionTurn
        /\ Session.startTime # 0
        /\ Session.companionWaitStart >= Session.startTime)
         => /\ store'.workouts[1].duration
                  = workoutElapsed(Session, Session.companionWaitStart)
            /\ Session'.companionWaitTime
                  = Session.companionWaitTime
                    + ((now - Session.companionWaitStart) \div MsPerSec)]_vars

---------------------------------------------------------------------------
(* The tickers that are alive (Spec) *)

\* The set tickers the browser keeps firing: the one whose handle the session
\* holds and those whose handle was overwritten.
liveSetTickers == timers.orphanSet + (IF Session.setTimerInterval THEN 1 ELSE 0)

\* The same for the rest tickers.
liveRestTickers == timers.orphanRest + (IF Session.restTimerInterval THEN 1 ELSE 0)

\* C35: at most one set ticker is alive at any time, and none is once
\* stopSetTimer or reset has cleared the handle of the session, whatever
\* was clicked to start the sets.
C35_OneSetTicker ==
    /\ liveSetTickers <= 1
    /\ ~Session.setTimerInterval => liveSetTickers = 0

\* C36: the set clock and the rest countdown are never active together: in
\* no state a set ticker and a rest ticker are both alive, so that each
\* change between a running set and a rest has stopped the one before it
\* started the other.
C36_SetAndRestExclusive == ~(liveSetTickers > 0 /\ liveRestTickers > 0)

---------------------------------------------------------------------------
(* A template loaded after a cancelled session (SpecReload) *)

ReloadMaxSessions == 2
ReloadMaxSets == 2
ReloadMaxTemplates == 1
ReloadMaxRestTicks == 3

\* The clock stands still; the rest is the short one of RestChoices once it
\* has been chosen.
ReloadBound ==
    [maxTime |-> 1,
     maxSessions |-> ReloadMaxSessions,
     maxSets |-> ReloadMaxSets,
     maxExercises |-> MaxExercises,
     maxWorkouts |-> MaxWorkouts,
     maxTemplates |-> ReloadMaxTemplates,
     maxRestTicks |-> ReloadMaxRestTicks,
     storedPRs |-> {NoPRs},
     rests |-> RestChoices,
     workoutNames |-> {"Push"},
     exercises |-> {[name |-> BenchPress, muscle |-> "Pecho"]},
     equipment |-> {"machine"},
     barbells |-> BarbellIndexChoices,
     barbellWeights |-> BarbellChoices,
     sets |-> {[weight |-> 80, reps |-> 5, setType |-> "effective"]}]

InitReload ==
    /\ InitWith(ReloadBound)
    /\ call = NoCall

NextReload ==
    \/ RestTick
    \/ SelectWorkoutMode
    \/ SelectRest
    \/ ConfigContinue
    \/ StartExercise
    \/ ClickStartSet
    \/ FinishSet
    \/ SkipRest
    \/ ToggleRestPause
    \/ FinishExercise
    \/ FinishWorkout
    \/ CancelWorkout
    \/ SaveAsTemplate
    \/ LoadTemplate
    \/ ToFeed

SpecReload == InitReload /\ [][NextReload]_vars

\* C37: the callback that ends a rest runs only during a session while
\* that rest is in progress, and the rest is over once it has run: it runs
\* at most once for a rest, and not after the rest was skipped, the
\* exercise finished or the workout finished or cancelled, each of which
\* ends the rest.
C37_RestDoneOnce ==
    [][dom'.toast = "rest-done"
         => /\ inSession
            /\ Session.restTimerInterval
            /\ ~Session'.restTimerInterval]_vars

---------------------------------------------------------------------------
(* The workout clock and the companion's turn *)

\* C38: the workout timer is paused exactly while it is the companion's
\* turn, and pauseStartTime is set exactly while the workout timer is
\* paused.
C38_PausedIffCompanionTurn ==
    /\ Session.isPaused = Session.isCompanionTurn
    /\ (Session.pauseStartTime # 0) = Session.isPaused

\* A companion's turn is in progress after the clock has moved.
C38_Witness ==
    /\ Session.isCompanionTurn
    /\ Session.isPaused
    /\ Session.pauseStartTime > 1
    /\ now > Session.pauseStartTime

---------------------------------------------------------------------------
(* The rest countdown *)

countingDown == Session.restTimerInterval /\ Session.restTotal >= 1

\* C39: while a rest of at least one second is counted down, restRemaining
\* stays between 0 and restTotal; it grows only when a rest is started
\* anew; the step that takes it to 0 stops the rest ticker; and it is never
\* negative.
C39_CountdownWithinBounds ==
    [][/\ countingDown' => (0 <= Session'.restRemaining
                           /\ Session'.restRemaining <= Session'.restTotal)
       /\ (countingDown /\ Session'.restRemaining > Session.restRemaining)
            => (Session'.restTimerInterval
                /\ Session'.restRemaining = Session'.restTotal)
       /\ (countingDown /\ Session.restRemaining > 0 /\ Session'.restRemaining = 0)
            => liveRestTickers' = 0
       /\ Session'.restRemaining >= 0]_vars

---------------------------------------------------------------------------
\* Two live sessions of up to two exercises each, whose names differ in
\* case only and so share one key of the PR table (SpecRecords); the clock
\* stands still and every rest is skipped.

RecMaxSessions == 2
RecMaxSets == 2
RecMaxExercises == 2
RecMaxWorkouts == 2

RecBound ==
    [maxTime |-> 1,
     maxSessions |-> RecMaxSessions,
     maxSets |-> RecMaxSets,
     maxExercises |-> RecMaxExercises,
     maxWorkouts |-> RecMaxWorkouts,
     maxTemplates |-> 0,
     maxRestTicks |-> 0,
     storedPRs |-> {NoPRs},
     rests |-> RestChoices,
     workoutNames |-> {"Push"},
     exercises |-> {[name |-> BenchPress, muscle |-> "Pecho"],
                    [name |-> benchPressKey, muscle |-> "General"]},
     equipment |-> {"machine"},
     barbells |-> {1},
     barbellWeights |-> BarbellChoices,
     sets |-> {[weight |-> 80, reps |-> 5, setType |-> "effective"],
               [weight |-> 90, reps |-> 5, setType |-> "effective"]}]

InitRecords ==
    /\ InitWith(RecBound)
    /\ call = NoCall

NextRecords ==
    \/ SelectWorkoutMode
    \/ ConfigContinue
    \/ StartExercise
    \/ ClickStartSet
    \/ FinishSet
    \/ SkipRest
    \/ FinishExercise
    \/ FinishWorkout
    \/ ToFeed

SpecRecords == InitRecords /\ [][NextRecords]_vars

\* The real weights of the effective sets of an exercise of a record.
effectiveRealWeights(ex) ==
    {ex.sets[i].realWeight : i \in {j \in 1..Len(ex.sets) : ex.sets[j].setType = "effective"}}

\* C40: for every exercise of every persisted workout, the PR table holds
\* under the exercise's normalized name a value that is at least the real
\* weight of each effective set of the exercise.
C40_TableCoversRecords ==
    \A n \in 1..Len(store.workouts) :
        \A e \in 1..Len(store.workouts[n].exercises) :
            LET ex == store.workouts[n].exercises[e]
            IN  \A weight \in effectiveRealWeights(ex) :
                    prOf(store.prs, normalizeKey(ex.name)) >= weight

\* A record holds two exercises of one key whose top effective weights
\* differ, the heavier first, and a later record stays below the table.
C40_Witness ==
    /\ Len(store.workouts) = 2
    /\ LET first == store.workouts[2].exercises
           later == store.workouts[1].exercises
       IN  /\ Len(first) = 2
           /\ first[1].name # first[2].name
           /\ normalizeKey(first[1].name) = normalizeKey(first[2].name)
           /\ effectiveRealWeights(first[1]) = {90}
           /\ effectiveRealWeights(first[2]) = {80}
           /\ \E e \in 1..Len(later) : effectiveRealWeights(later[e]) = {80}
    /\ store.prs[benchPressKey] = 90

=============================================================================
